---- MODULE Spec2Model ----
(***************************************************************************)
(* Urban Mobility backend: login with brute-force tracking (auth.py), the  *)
(* role gate and the user services (services.py), the audit log            *)
(* (logger.py), the store and its seeding (database.py) and the process    *)
(* life cycle of main.py.                                                  *)
(*                                                                         *)
(* The store is one SQLite file holding the tables users, travellers,      *)
(* scooters, logs and restore_codes; each table is a sequence of rows in   *)
(* rowid order.  Strings are TLA+ strings; Chars gives the characters of   *)
(* the strings the model uses, so that lower() and the validation regular  *)
(* expressions are computed character by character.                        *)
(***************************************************************************)
EXTENDS Integers, Sequences, FiniteSets, TLC

(* ------------------------------ bounds -------------------------------- *)
\* rows the users table may hold (AUTOINCREMENT ids stop here)
MaxUserId == 7
\* entries the logs table may hold
MaxLog == 5
\* clock values 0..MaxTime (seconds since the first start)
MaxTime == 1
\* lockout thresholds the lockout claims are stated for: 1..MaxThreshold
MaxThreshold == 2
\* rows the travellers table may hold
MaxTravellerId == 1
\* restore codes that may be issued
MaxCodeId == 1
\* rows the scooters table may hold
MaxScooterId == 1
\* audit entries up to which the gate is tried with every operation
MaxGateLog == 3
\* audit entries up to which the user services are called
MaxAdminLog == 4
\* audit entries up to which backups are made and codes are issued
MaxBackupLog == 3
\* code points of the longest string handed to encrypt
MaxText == 2

(* ------------------------------ config.py ----------------------------- *)
\* the module attributes config.py defines; config.X for any other X raises
\* AttributeError
Config ==
  [ SUPER_ADMIN_USERNAME  |-> "super_admin",
    SUPER_ADMIN_PASSWORD  |-> "Admin_123?",
    DATABASE_FILE         |-> "urban_mobility.db",
    ENCRYPTION_KEY_FILE   |-> "secret.key",
    LOG_FILE_NAME         |-> "system.log",
    ROLE_SUPER_ADMIN      |-> "Super Administrator",
    ROLE_SYSTEM_ADMIN     |-> "System Administrator",
    ROLE_SERVICE_ENGINEER |-> "Service Engineer",
    PREDEFINED_CITIES     |-> << "Rotterdam", "Amsterdam", "The Hague", "Utrecht",
                                 "Eindhoven", "Groningen", "Tilburg", "Almere",
                                 "Breda", "Nijmegen" >> ]

HasAttr(name) == name \in DOMAIN Config

ROLE_SUPER_ADMIN      == Config.ROLE_SUPER_ADMIN
ROLE_SYSTEM_ADMIN     == Config.ROLE_SYSTEM_ADMIN
ROLE_SERVICE_ENGINEER == Config.ROLE_SERVICE_ENGINEER

Roles == {ROLE_SUPER_ADMIN, ROLE_SYSTEM_ADMIN, ROLE_SERVICE_ENGINEER}

(* ------------------------------ strings ------------------------------- *)
\* the characters of every string the model types in or stores
Chars(s) ==
  CASE s = "super_admin"     -> <<"s","u","p","e","r","_","a","d","m","i","n">>
    [] s = "sys_admin"       -> <<"s","y","s","_","a","d","m","i","n">>
    [] s = "SYS_ADMIN"       -> <<"S","Y","S","_","A","D","M","I","N">>
    [] s = "service_eng"     -> <<"s","e","r","v","i","c","e","_","e","n","g">>
    [] s = "Service_Eng"     -> <<"S","e","r","v","i","c","e","_","E","n","g">>
    [] s = "adm_user1"       -> <<"a","d","m","_","u","s","e","r","1">>
    [] s = "eng_user1"       -> <<"e","n","g","_","u","s","e","r","1">>
    [] s = "1bad"            -> <<"1","b","a","d">>
    [] s = "nobody_99"       -> <<"n","o","b","o","d","y","_","9","9">>
    [] s = "Admin_123?"      -> <<"A","d","m","i","n","_","1","2","3","?">>
    [] s = "SysAdmin_123?"   -> <<"S","y","s","A","d","m","i","n","_","1","2","3","?">>
    [] s = "ServiceEng_123?" -> <<"S","e","r","v","i","c","e","E","n","g","_","1","2","3","?">>
    [] s = "Abcdefg1234!"    -> <<"A","b","c","d","e","f","g","1","2","3","4","!">>
    [] s = "alllowercase1"   -> <<"a","l","l","l","o","w","e","r","c","a","s","e","1">>
    [] s = "wrong"           -> <<"w","r","o","n","g">>
    [] s = "SCOOT12345"      -> <<"S","C","O","O","T","1","2","3","4","5">>
    [] s = "bad serial"      -> <<"b","a","d"," ","s","e","r","i","a","l">>
    [] s = "51.92250"        -> <<"5","1",".","9","2","2","5","0">>
    [] s = "53.00000"        -> <<"5","3",".","0","0","0","0","0">>
    [] s = "51.9"            -> <<"5","1",".","9">>
    [] s = "4.47917"         -> <<"4",".","4","7","9","1","7">>
    [] s = "2024-01-15"      -> <<"2","0","2","4","-","0","1","-","1","5">>
    [] s = "15-01-2024"      -> <<"1","5","-","0","1","-","2","0","2","4">>
    [] s = ""                -> << >>

\* the usernames (closed under lower()) and the passwords among them
Names ==
  { "super_admin", "sys_admin", "SYS_ADMIN", "service_eng", "Service_Eng",
    "adm_user1", "eng_user1", "1bad", "nobody_99", "" }
Passwords ==
  { "Admin_123?", "SysAdmin_123?", "ServiceEng_123?", "Abcdefg1234!",
    "alllowercase1", "wrong" }

LowerLetters == {"a","b","c","d","e","f","g","h","i","j","k","l","m",
                 "n","o","p","q","r","s","t","u","v","w","x","y","z"}
UpperLetters == {"A","B","C","D","E","F","G","H","I","J","K","L","M",
                 "N","O","P","Q","R","S","T","U","V","W","X","Y","Z"}
Digits == {"0","1","2","3","4","5","6","7","8","9"}

LowerChar(c) ==
  CASE c = "A" -> "a" [] c = "B" -> "b" [] c = "C" -> "c" [] c = "D" -> "d"
    [] c = "E" -> "e" [] c = "F" -> "f" [] c = "G" -> "g" [] c = "H" -> "h"
    [] c = "I" -> "i" [] c = "J" -> "j" [] c = "K" -> "k" [] c = "L" -> "l"
    [] c = "M" -> "m" [] c = "N" -> "n" [] c = "O" -> "o" [] c = "P" -> "p"
    [] c = "Q" -> "q" [] c = "R" -> "r" [] c = "S" -> "s" [] c = "T" -> "t"
    [] c = "U" -> "u" [] c = "V" -> "v" [] c = "W" -> "w" [] c = "X" -> "x"
    [] c = "Y" -> "y" [] c = "Z" -> "z" [] OTHER -> c

\* str.lower(): the string whose characters are the lowered characters of s
LowerTable ==
  [s \in Names |->
     LET low == [i \in 1..Len(Chars(s)) |-> LowerChar(Chars(s)[i])]
     IN  CHOOSE t \in Names : Chars(t) = low] @@ << >>

Lower(s) == LowerTable[s]

(* ---------------------------- validation.py --------------------------- *)
\* ^[a-zA-Z_][a-zA-Z0-9_'.]{7,9}$
is_valid_username(username) ==
  LET cs == Chars(username)
  IN  /\ Len(cs) >= 8 /\ Len(cs) <= 10
      /\ cs[1] \in LowerLetters \cup UpperLetters \cup {"_"}
      /\ \A i \in 2..Len(cs) :
            cs[i] \in LowerLetters \cup UpperLetters \cup Digits \cup {"_", "'", "."}

SpecialChars == {"~","!","@","#","$","%","^","&","*","(",")","_","+","=","`",
                 "{","}","[","]",":",";","'","<",">",",",".","?","/","|","\\","-"}

\* 12..30 characters with a lowercase letter, an uppercase letter, a digit and
\* a special character
is_valid_password(password) ==
  LET cs == Chars(password)
  IN  /\ Len(cs) >= 12 /\ Len(cs) <= 30
      /\ \E i \in 1..Len(cs) : cs[i] \in LowerLetters
      /\ \E i \in 1..Len(cs) : cs[i] \in UpperLetters
      /\ \E i \in 1..Len(cs) : cs[i] \in Digits
      /\ \E i \in 1..Len(cs) : cs[i] \in SpecialChars

\* ^[a-zA-Z0-9]{10,17}$
is_valid_scooter_serial(serial) ==
  LET cs == Chars(serial)
  IN  /\ Len(cs) >= 10 /\ Len(cs) <= 17
      /\ \A i \in 1..Len(cs) : cs[i] \in LowerLetters \cup UpperLetters \cup Digits

\* the value of a digit and of a run of digits
DigitValue(c) ==
  CASE c = "0" -> 0 [] c = "1" -> 1 [] c = "2" -> 2 [] c = "3" -> 3 [] c = "4" -> 4
    [] c = "5" -> 5 [] c = "6" -> 6 [] c = "7" -> 7 [] c = "8" -> 8 [] c = "9" -> 9

RECURSIVE Number(_)
Number(ds) ==
  IF ds = << >> THEN 0
  ELSE 10 * Number(SubSeq(ds, 1, Len(ds) - 1)) + DigitValue(ds[Len(ds)])

\* a coordinate without its optional sign, and the places of its dots
Unsigned(cs) == IF cs # << >> /\ cs[1] \in {"+", "-"} THEN Tail(cs) ELSE cs
DotsOf(cs) == { i \in 1..Len(cs) : cs[i] = "." }

\* ^[+-]?\d+\.\d{5,}$
is_valid_location_coordinate(coord) ==
  LET cs == Unsigned(Chars(coord))
  IN  /\ Cardinality(DotsOf(cs)) = 1
      /\ LET d == CHOOSE i \in DotsOf(cs) : TRUE
         IN  /\ d >= 2
             /\ Len(cs) - d >= 5
             /\ \A i \in (1..Len(cs)) \ {d} : cs[i] \in Digits

\* float(coord) in units of 0.00001 degree (the first five decimals)
Degrees(coord) ==
  LET cs == Unsigned(Chars(coord))
      d  == CHOOSE i \in DotsOf(cs) : TRUE
      magnitude == Number(SubSeq(cs, 1, d - 1)) * 100000
                     + Number(SubSeq(cs, d + 1, d + 5))
  IN  IF Chars(coord)[1] = "-" THEN 0 - magnitude ELSE magnitude

\* the bounding box of is_in_rotterdam_region, in the same units
MIN_LAT == 5180000
MAX_LAT == 5200000
MIN_LON == 430000
MAX_LON == 460000

is_in_rotterdam_region(latitude, longitude) ==
  /\ MIN_LAT <= latitude /\ latitude <= MAX_LAT
  /\ MIN_LON <= longitude /\ longitude <= MAX_LON

\* the places of the dashes of a date
DashesOf(cs) == { i \in 1..Len(cs) : cs[i] = "-" }

\* strptime(date_string, '%Y-%m-%d') of a date that is not in the future: four
\* digits, one or two digits of a month, one or two digits of a day
is_valid_iso_date(date_string) ==
  LET cs == Chars(date_string)
  IN  /\ Cardinality(DashesOf(cs)) = 2
      /\ \A i \in (1..Len(cs)) \ DashesOf(cs) : cs[i] \in Digits
      /\ LET d1 == CHOOSE i \in DashesOf(cs) : \A j \in DashesOf(cs) : i <= j
             d2 == CHOOSE i \in DashesOf(cs) : \A j \in DashesOf(cs) : j <= i
             month == Number(SubSeq(cs, d1 + 1, d2 - 1))
             day   == Number(SubSeq(cs, d2 + 1, Len(cs)))
         IN  /\ d1 = 5
             /\ d2 - d1 \in {2, 3}
             /\ Len(cs) - d2 \in {1, 2}
             /\ month >= 1 /\ month <= 12
             /\ day >= 1 /\ day <= 31

(* ---------------------------- encryption.py --------------------------- *)
\* keys Fernet.generate_key() may return
Keys == {1, 2}
NoKey == 0
FirstKey == 1

\* a Fernet token: it carries the key it was made under and a fresh iv, so
\* two encryptions of one plaintext are different tokens
encrypt(key, data, iv) == [k |-> key, pt |-> data, iv |-> iv]

\* InvalidToken (token of another key) is swallowed and gives ""
decrypt(key, token) == IF token.k = key THEN token.pt ELSE ""

\* The two operators above are EncryptionManager as the services use it, on
\* whole texts.  What follows is encrypt and decrypt statement by statement,
\* on strings as sequences of code points and bytes as sequences of 0..255.

\* code points of one, two, three and four UTF-8 bytes: A, e acute, the euro
\* sign, an emoji
CodePoints == {65, 233, 8364, 128512}
Texts == UNION { [1..n -> CodePoints] : n \in 0..MaxText }
Ivs == {0, 1}

\* Python values: a str, a bytes, or the exception a call ended with
Str(v) == [type |-> "str", v |-> v]
Bytes(v) == [type |-> "bytes", v |-> v]
Raised(exception) == [type |-> exception, v |-> << >>]

\* an encoding that drops what is not ASCII
EncodeChar_Ascii(c) == IF c < 128 THEN << c >> ELSE << >>

\* the UTF-8 bytes of one code point
EncodeChar(c) ==
  IF c < 128 THEN << c >>
  ELSE IF c < 2048 THEN << 192 + (c \div 64), 128 + (c % 64) >>
  ELSE IF c < 65536
    THEN << 224 + (c \div 4096), 128 + ((c \div 64) % 64), 128 + (c % 64) >>
    ELSE << 240 + (c \div 262144), 128 + ((c \div 4096) % 64),
            128 + ((c \div 64) % 64), 128 + (c % 64) >>

\* data.encode('utf-8')
RECURSIVE str_encode(_)
str_encode(s) ==
  IF s = << >> THEN << >> ELSE EncodeChar(Head(s)) \o str_encode(Tail(s))

\* the number of bytes the lead byte b announces, 0 when b cannot lead
SequenceLength(b) ==
  IF b < 128 THEN 1
  ELSE IF b >= 194 /\ b < 224 THEN 2
  ELSE IF b >= 224 /\ b < 240 THEN 3
  ELSE IF b >= 240 /\ b < 245 THEN 4
  ELSE 0

IsContinuation(b) == b >= 128 /\ b < 192

\* the code point of a sequence of one lead byte and its continuations
DecodeChar(bs) ==
  CASE Len(bs) = 1 -> bs[1]
    [] Len(bs) = 2 -> (bs[1] - 192) * 64 + (bs[2] - 128)
    [] Len(bs) = 3 -> (bs[1] - 224) * 4096 + (bs[2] - 128) * 64 + (bs[3] - 128)
    [] Len(bs) = 4 -> (bs[1] - 240) * 262144 + (bs[2] - 128) * 4096
                        + (bs[3] - 128) * 64 + (bs[4] - 128)

\* decrypted_data.decode('utf-8'): the str, or UnicodeDecodeError
RECURSIVE bytes_decode(_)
bytes_decode(b) ==
  IF b = << >> THEN Str(<< >>)
  ELSE LET n == SequenceLength(b[1])
       IN  IF \/ n = 0
              \/ n > Len(b)
              \/ \E i \in 2..n : ~IsContinuation(b[i])
             THEN Raised("UnicodeDecodeError")
             ELSE LET rest == bytes_decode(SubSeq(b, n + 1, Len(b)))
                  IN  IF rest.type # "str" THEN rest
                      ELSE Str(<< DecodeChar(SubSeq(b, 1, n)) >> \o rest.v)

\* the version byte of a Fernet token
FernetVersion == 128

\* the HMAC of a token's version, iv and ciphertext under a key
Hmac(key, version, iv, ciphertext) ==
  [k |-> key, version |-> version, iv |-> iv, ciphertext |-> ciphertext]

\* self.cipher.encrypt(encoded_data): version, fresh iv, the data under the
\* key, and the HMAC of the three
Fernet_encrypt(key, data, iv) ==
  LET ciphertext == [k |-> key, data |-> data]
  IN  [ version |-> FernetVersion, iv |-> iv, ciphertext |-> ciphertext,
        hmac |-> Hmac(key, FernetVersion, iv, ciphertext) ]

\* self.cipher.decrypt(encrypted_data): InvalidToken for a token that is not
\* of version 0x80 or whose HMAC is not the one of its content under the key
Fernet_decrypt(key, token) ==
  IF \/ token.version # FernetVersion
     \/ token.hmac # Hmac(key, token.version, token.iv, token.ciphertext)
    THEN Raised("InvalidToken")
    ELSE Bytes(token.ciphertext.data)

\* EncryptionManager.encrypt
EncryptionManager_encrypt(key, data, iv) ==
  IF data.type # "str" THEN Raised("TypeError")
  ELSE Bytes(Fernet_encrypt(key, str_encode(data.v), iv))

\* decrypt without the except clause
EncryptionManager_decrypt_Raising(key, encrypted_data) ==
  IF encrypted_data.type # "bytes" THEN Raised("TypeError")
  ELSE LET decrypted_data == Fernet_decrypt(key, encrypted_data.v)
       IN  IF decrypted_data.type = "InvalidToken" THEN decrypted_data
           ELSE bytes_decode(decrypted_data.v)

\* EncryptionManager.decrypt
EncryptionManager_decrypt(key, encrypted_data) ==
  IF encrypted_data.type # "bytes" THEN Raised("TypeError")
  ELSE LET decrypted_data == Fernet_decrypt(key, encrypted_data.v)
       IN  IF decrypted_data.type = "InvalidToken" THEN Str(<< >>)
           ELSE bytes_decode(decrypted_data.v)

(* ------------------------------- auth.py ------------------------------ *)
\* bcrypt.hashpw with a fresh salt, and bcrypt.checkpw
hash_password(password) == [alg |-> "bcrypt", pw |-> password]
verify_password(plain_password, password_hash) == password_hash.pw = plain_password

(* ------------------------------- state -------------------------------- *)
VARIABLES
  proc,            \* the main.py process: "running", "exited" or "crashed"
  keyFile,         \* secret.key: NoKey while absent, else the key
  now,             \* the clock
  users,           \* users table, rows in rowid order
  travellers,      \* travellers table
  scooters,        \* scooters table
  logs,            \* logs table
  restore_codes,   \* restore_codes table
  seq,             \* sqlite_sequence: the last id handed out, per table
  backups,         \* src/backups: filename -> archived store, or NoFile
  login_attempts,  \* auth.login_attempts: lowercased username -> record
  current_user,    \* main(): the session identity, NoUser when logged out
  failures,        \* per process: failed logins per lowercased username
                   \* since its last successful login
  last,            \* the last call made and what it returned
  blob             \* a value handed to the EncryptionManager and what came back

\* the store file urban_mobility.db
store == << users, travellers, scooters, logs, restore_codes, seq >>
\* the tables other than the audit log
tables == << users, travellers, scooters, restore_codes, seq >>
memory == << login_attempts, current_user, failures >>

vars == << proc, keyFile, now, users, travellers, scooters, logs, restore_codes,
           seq, backups, login_attempts, current_user, failures, last, blob >>

NoUser == [id |-> 0, username |-> "", role |-> "None"]

\* SecureLogger.log: one encrypted row, is_read 0
LogRow(username, activity_desc, additional_info, is_suspicious) ==
  [ id         |-> Len(logs) + 1,
    date       |-> now,
    username   |-> encrypt(keyFile, username, 0),
    activity   |-> encrypt(keyFile, activity_desc, 0),
    info       |-> encrypt(keyFile, additional_info, 0),
    suspicious |-> IF is_suspicious THEN 1 ELSE 0,
    is_read    |-> 0 ]

\* rows the logs table can still take
CanLog(n) == Len(logs) + n <= MaxLog

(* --------------------------- database.py ------------------------------ *)
\* one INSERT OR IGNORE of initialize_database: the username token is a new
\* one, so the UNIQUE constraint on the username column never fires
SeedRow(key, id, username, password, role, first_name, last_name) ==
  [ id            |-> id,
    username      |-> encrypt(key, username, id),
    password_hash |-> hash_password(password),
    role          |-> role,
    first_name    |-> encrypt(key, first_name, 0),
    last_name     |-> encrypt(key, last_name, 0) ]

initialize_database(key, table, lastId) ==
  table \o << SeedRow(key, lastId + 1, "super_admin", "Admin_123?", ROLE_SUPER_ADMIN,
                      "Super", "Admin"),
              SeedRow(key, lastId + 2, "sys_admin", "SysAdmin_123?", ROLE_SYSTEM_ADMIN,
                      "System", "Admin"),
              SeedRow(key, lastId + 3, "service_eng", "ServiceEng_123?",
                      ROLE_SERVICE_ENGINEER, "Service", "Engineer") >>

(* ------------------------------ inputs -------------------------------- *)
LoginNames == {"super_admin", "sys_admin", "SYS_ADMIN", "service_eng", "nobody_99"}
LoginPasswords == {"Admin_123?", "SysAdmin_123?", "ServiceEng_123?", "wrong"}
LoginKeys == {Lower(u) : u \in LoginNames}

(* ------------------------------- main.py ------------------------------ *)
EmptyAttempts == [k \in {} |-> [attempts |-> 0, last_attempt |-> 0]]
NoFailures == [k \in LoginKeys |-> 0]
\* last: the operation, its two first arguments, what it returned and the
\* first message it printed
NoCall == [op |-> "none", arg |-> "", arg2 |-> "", result |-> "none", msg |-> ""]
Call(op, arg, arg2, result, msg) ==
  [op |-> op, arg |-> arg, arg2 |-> arg2, result |-> result, msg |-> msg]

NoSeq == [users |-> 0, travellers |-> 0, scooters |-> 0, restore_codes |-> 0]
\* create_backup names the archive after the second it is made in
Filenames == 0..MaxTime
NoFile == [exists |-> FALSE]

\* nothing has been handed to the EncryptionManager
NoToken == Fernet_encrypt(NoKey, << >>, 0)
NoBlob ==
  [ stage |-> "none", text |-> << >>, origin |-> "none",
    token |-> Bytes(NoToken), out |-> Raised("none") ]

Init ==
  /\ proc = "exited"
  /\ keyFile = NoKey
  /\ now = 0
  /\ users = << >>
  /\ travellers = << >>
  /\ scooters = << >>
  /\ logs = << >>
  /\ restore_codes = << >>
  /\ seq = NoSeq
  /\ backups = [f \in Filenames |-> NoFile]
  /\ login_attempts = EmptyAttempts
  /\ current_user = NoUser
  /\ failures = NoFailures
  /\ last = NoCall
  /\ blob = NoBlob

\* the loop of main() or of a menu is waiting for input
AtPrompt == proc = "running" /\ last = NoCall

\* a manager that writes a new key whenever it is created
_load_or_generate_key_Afresh(file, generated) == generated

\* EncryptionManager._load_or_generate_key: the key the file holds, or a
\* generated one that the file holds from then on
_load_or_generate_key(file, generated) ==
  IF file # NoKey THEN file ELSE generated

\* python main.py: importing services loads or generates the key, main()
\* runs initialize_database and starts the loop logged out
Start(generated) ==
  /\ proc \in {"exited", "crashed"}
  /\ seq.users + 3 <= MaxUserId
  /\ LET key == _load_or_generate_key(keyFile, generated)
     IN  /\ keyFile' = key
         /\ users' = initialize_database(key, users, seq.users)
  /\ seq' = [seq EXCEPT !.users = @ + 3]
  /\ proc' = "running"
  /\ login_attempts' = EmptyAttempts
  /\ current_user' = NoUser
  /\ failures' = NoFailures
  /\ last' = NoCall
  /\ UNCHANGED << now, travellers, scooters, logs, restore_codes, backups, blob >>

\* Ctrl-C at a prompt: KeyboardInterrupt ends the process, its memory is gone
Quit ==
  /\ AtPrompt
  /\ proc' = "exited"
  /\ login_attempts' = EmptyAttempts
  /\ current_user' = NoUser
  /\ failures' = NoFailures
  /\ UNCHANGED << blob, keyFile, now, store, backups, last >>

\* a second passes between two calls, or while the program is down
Tick ==
  /\ now < MaxTime
  /\ proc = "running" => last = NoCall
  /\ now' = now + 1
  /\ UNCHANGED << blob, proc, keyFile, store, backups, memory, last >>

\* the result has been printed, the loop asks for the next input
Return ==
  /\ proc = "running"
  /\ last # NoCall
  /\ last' = NoCall
  /\ UNCHANGED << blob, proc, keyFile, now, store, backups, memory >>

(* ------------------------------- auth.py ------------------------------ *)
\* the rows login() walks over, in order, until the first row whose
\* decrypted username equals the typed one case-insensitively
MatchingRows(table, username) ==
  SelectSeq(table, LAMBDA row : Lower(decrypt(keyFile, row.username)) = Lower(username))

\* login(), lines 33-44: what the brute-force check at entry decides.
\* config.MAX_LOGIN_ATTEMPTS and config.LOCKOUT_TIME_SECONDS are read only
\* when the username has a record
EntryCheck(key) ==
  IF key \notin DOMAIN login_attempts THEN "proceed"
  ELSE IF ~HasAttr("MAX_LOGIN_ATTEMPTS") THEN "fault"
  ELSE IF login_attempts[key].attempts >= Config.MAX_LOGIN_ATTEMPTS
       THEN IF ~HasAttr("LOCKOUT_TIME_SECONDS") THEN "fault"
            ELSE IF now - login_attempts[key].last_attempt < Config.LOCKOUT_TIME_SECONDS
                 THEN "locked"
                 ELSE "expired"
       ELSE "proceed"

\* del login_attempts[key]
DelAttempt(attempts, key) ==
  [k \in DOMAIN attempts \ {key} |-> attempts[k]]

\* a failure that is counted only once a record exists
RecordFailure_NoCreate(attempts, key) ==
  [k \in DOMAIN attempts |->
     IF k = key THEN [attempts |-> attempts[k].attempts + 1, last_attempt |-> now]
                ELSE attempts[k]]

\* login(), lines 94-95: attempts + 1 at the current time, the record is
\* created when absent
RecordFailure(attempts, key) ==
  LET old == IF key \in DOMAIN attempts THEN attempts[key].attempts ELSE 0
  IN  [k \in DOMAIN attempts \cup {key} |->
         IF k = key THEN [attempts |-> old + 1, last_attempt |-> now]
                    ELSE attempts[k]]

\* an audit entry that hides which of the two failures it was
FailureReason_Uniform(user_found) == "Invalid username or password"

\* login(), line 90
FailureReason(user_found) == IF user_found THEN "Wrong password" ELSE "Username not found"

\* login(), lines 97-98: the lockout notice reads config.MAX_LOGIN_ATTEMPTS
NoticeFaults == ~HasAttr("MAX_LOGIN_ATTEMPTS")

\* one pass of the main loop while logged out: auth.login() and, when it
\* returns an identity, the "Logged in" entry of main().  last.arg2 is the
\* password typed, "" when login() ended before asking for it
Login(username, password) ==
  /\ AtPrompt
  /\ current_user = NoUser
  /\ CanLog(1)
  /\ LET key == Lower(username)
         entry == EntryCheck(key)
         attempts0 == IF entry = "expired" THEN DelAttempt(login_attempts, key)
                      ELSE login_attempts
         failures0 == IF entry = "expired" THEN [failures EXCEPT ![key] = 0]
                      ELSE failures
         rows == MatchingRows(users, username)
         user_found == rows # << >>
         ok == user_found /\ verify_password(password, rows[1].password_hash)
     IN  CASE entry = "fault" ->
                \* AttributeError leaves login() and main(): the process ends
                /\ proc' = "crashed"
                /\ last' = Call("login", username, "", "Fault", "")
                /\ UNCHANGED << store, memory >>
           [] entry = "locked" ->
                /\ last' = Call("login", username, "", "Locked",
                                 "Too many failed login attempts.")
                /\ UNCHANGED << proc, store, memory >>
           [] entry \in {"proceed", "expired"} /\ ok ->
                /\ login_attempts' = DelAttempt(attempts0, key)
                /\ failures' = [failures0 EXCEPT ![key] = 0]
                /\ current_user' = [id |-> rows[1].id,
                                    username |-> decrypt(keyFile, rows[1].username),
                                    role |-> rows[1].role]
                /\ logs' = Append(logs, LogRow(decrypt(keyFile, rows[1].username),
                                               "Logged in", "", FALSE))
                /\ last' = Call("login", username, password, "Success", "Welcome")
                /\ UNCHANGED << proc, tables >>
           [] entry \in {"proceed", "expired"} /\ ~ok ->
                /\ logs' = Append(logs, LogRow(username, "Unsuccessful login",
                                               FailureReason(user_found), TRUE))
                /\ login_attempts' = RecordFailure(attempts0, key)
                /\ failures' = [failures0 EXCEPT ![key] = @ + 1]
                /\ proc' = IF NoticeFaults THEN "crashed" ELSE "running"
                /\ last' = Call("login", username, password,
                                 IF NoticeFaults THEN "Fault" ELSE "Rejected",
                                 "Invalid username or password.")
                /\ UNCHANGED << current_user, tables >>
  /\ UNCHANGED << blob, keyFile, now, backups >>

\* the Logout choice of every menu
Logout ==
  /\ AtPrompt
  /\ current_user # NoUser
  /\ CanLog(1)
  /\ logs' = Append(logs, LogRow(current_user.username, "Logged out", "", FALSE))
  /\ current_user' = NoUser
  /\ last' = Call("logout", "", "", "None", "Logging out...")
  /\ UNCHANGED << blob, proc, keyFile, now, tables, backups, login_attempts, failures >>

(* ----------------------------- services.py ---------------------------- *)
\* @requires_role(...) of every service function
AllowedRoles ==
  [ add_new_user          |-> {ROLE_SUPER_ADMIN, ROLE_SYSTEM_ADMIN},
    update_user_profile   |-> {ROLE_SUPER_ADMIN, ROLE_SYSTEM_ADMIN},
    delete_user           |-> {ROLE_SUPER_ADMIN, ROLE_SYSTEM_ADMIN},
    reset_user_password   |-> {ROLE_SUPER_ADMIN, ROLE_SYSTEM_ADMIN},
    update_own_password   |-> {ROLE_SYSTEM_ADMIN, ROLE_SERVICE_ENGINEER},
    list_users            |-> {ROLE_SUPER_ADMIN, ROLE_SYSTEM_ADMIN},
    update_own_profile    |-> {ROLE_SYSTEM_ADMIN, ROLE_SERVICE_ENGINEER},
    delete_own_account    |-> {ROLE_SYSTEM_ADMIN},
    add_new_scooter       |-> {ROLE_SUPER_ADMIN, ROLE_SYSTEM_ADMIN},
    get_scooter_details   |-> {ROLE_SUPER_ADMIN, ROLE_SYSTEM_ADMIN, ROLE_SERVICE_ENGINEER},
    update_scooter        |-> {ROLE_SUPER_ADMIN, ROLE_SYSTEM_ADMIN, ROLE_SERVICE_ENGINEER},
    delete_scooter        |-> {ROLE_SUPER_ADMIN, ROLE_SYSTEM_ADMIN},
    search_scooters       |-> {ROLE_SUPER_ADMIN, ROLE_SYSTEM_ADMIN, ROLE_SERVICE_ENGINEER},
    add_new_traveller     |-> {ROLE_SUPER_ADMIN, ROLE_SYSTEM_ADMIN},
    search_travellers     |-> {ROLE_SUPER_ADMIN, ROLE_SYSTEM_ADMIN},
    update_traveller      |-> {ROLE_SUPER_ADMIN, ROLE_SYSTEM_ADMIN},
    delete_traveller      |-> {ROLE_SUPER_ADMIN, ROLE_SYSTEM_ADMIN},
    create_backup         |-> {ROLE_SUPER_ADMIN, ROLE_SYSTEM_ADMIN},
    generate_restore_code |-> {ROLE_SUPER_ADMIN},
    revoke_restore_code   |-> {ROLE_SUPER_ADMIN},
    restore_from_backup   |-> {ROLE_SUPER_ADMIN, ROLE_SYSTEM_ADMIN} ]

Operations == DOMAIN AllowedRoles

\* requires_role.wrapper, line 24: the call is passed on to the function
Permitted(op) ==
  /\ AtPrompt
  /\ current_user # NoUser
  /\ current_user.role \in AllowedRoles[op]

\* requires_role.wrapper, lines 24-28, called without an identity: "Access
\* Denied" and None, and line 26 skips the audit entry
DeniedNoIdentity(op) ==
  /\ AtPrompt
  /\ current_user = NoUser
  /\ last' = Call(op, "", "", "None", "Access Denied")
  /\ UNCHANGED << blob, proc, keyFile, now, store, backups, memory >>

\* a gate that turns the call away without an audit entry
Denied_NoEntry(op) ==
  /\ AtPrompt
  /\ current_user # NoUser
  /\ current_user.role \notin AllowedRoles[op]
  /\ last' = Call(op, "", "", "None", "Access Denied")
  /\ UNCHANGED << blob, proc, keyFile, now, store, backups, memory >>

\* requires_role.wrapper, lines 24-28, for an identity of another role:
\* "Access Denied", one suspicious entry, None
Denied(op) ==
  /\ AtPrompt
  /\ current_user # NoUser
  /\ current_user.role \notin AllowedRoles[op]
  /\ CanLog(1)
  /\ logs' = Append(logs, LogRow(current_user.username, "Authorization failed",
                                 "Attempted to use " \o op, TRUE))
  /\ last' = Call(op, "", "", "None", "Access Denied")
  /\ UNCHANGED << blob, proc, keyFile, now, tables, backups, memory >>

\* what every service call leaves alone
Frame == UNCHANGED << blob, proc, keyFile, now, memory >>

\* a call that only returns a value and prints a message
Refuse(op, arg, arg2, result, msg) ==
  /\ last' = Call(op, arg, arg2, result, msg)
  /\ UNCHANGED << store, backups >>

\* a call that returns after writing one audit entry
RefuseLogged(op, arg, arg2, result, msg, activity, info) ==
  /\ logs' = Append(logs, LogRow(current_user.username, activity, info, TRUE))
  /\ last' = Call(op, arg, arg2, result, msg)
  /\ UNCHANGED << tables, backups >>

\* _find_user_by_username: the first row whose decrypted username equals the
\* given one case-insensitively; Found tells whether there is one
Found(username) == MatchingRows(users, username) # << >>
_find_user_by_username(username) == MatchingRows(users, username)[1]

\* a role check that lets a System Administrator create any account
MayNotCreate_Lax(actor_role, role) == FALSE

\* add_new_user, lines 71-73
MayNotCreate(actor_role, role) ==
  actor_role = ROLE_SYSTEM_ADMIN /\ role = ROLE_SYSTEM_ADMIN

\* add_new_user, lines 65-67
RoleCreatable(role) == role \in {ROLE_SERVICE_ENGINEER, ROLE_SYSTEM_ADMIN}

add_new_user(username, password, role, first_name, last_name) ==
  /\ Permitted("add_new_user")
  /\ CanLog(1)
  /\ Frame
  /\ IF ~is_valid_username(username)
     THEN Refuse("add_new_user", username, role, "False", "Invalid username format.")
     ELSE IF ~is_valid_password(password)
     THEN Refuse("add_new_user", username, role, "False", "Invalid password format.")
     ELSE IF ~RoleCreatable(role)
     THEN Refuse("add_new_user", username, role, "False", "Invalid role specified.")
     ELSE IF role = ROLE_SUPER_ADMIN
     THEN Refuse("add_new_user", username, role, "False",
                 "Cannot create another Super Administrator.")
     ELSE IF MayNotCreate(current_user.role, role)
     THEN Refuse("add_new_user", username, role, "False",
                 "System administrators cannot create other system administrators.")
     ELSE /\ seq.users < MaxUserId
          /\ users' = Append(users,
               [ id            |-> seq.users + 1,
                 username      |-> encrypt(keyFile, username, seq.users + 1),
                 password_hash |-> hash_password(password),
                 role          |-> role,
                 first_name    |-> encrypt(keyFile, first_name, 0),
                 last_name     |-> encrypt(keyFile, last_name, 0) ])
          /\ seq' = [seq EXCEPT !.users = @ + 1]
          /\ logs' = Append(logs, LogRow(current_user.username, "Added new user",
                              "Username: " \o username \o ", Role: " \o role, FALSE))
          /\ last' = Call("add_new_user", username, role, "True",
                          "User added successfully.")
          /\ UNCHANGED << travellers, scooters, restore_codes, backups >>

\* UPDATE users SET field = value WHERE username = token
SetWhereUsername(table, token, field, value) ==
  [i \in 1..Len(table) |->
     IF table[i].username = token THEN [table[i] EXCEPT ![field] = value]
                                  ELSE table[i]]

\* UPDATE users SET field = value WHERE id = id
SetWhereId(table, id, field, value) ==
  [i \in 1..Len(table) |->
     IF table[i].id = id THEN [table[i] EXCEPT ![field] = value] ELSE table[i]]

\* DELETE FROM users WHERE username = token
DeleteWhereUsername(table, token) ==
  SelectSeq(table, LAMBDA row : row.username # token)

\* DELETE FROM users WHERE id = id
DeleteWhereId(table, id) == SelectSeq(table, LAMBDA row : row.id # id)

\* the UPDATE of update_user_profile (WHERE username = key) and of
\* update_own_profile (WHERE id = key)
SetWhere(table, byId, key, field, value) ==
  IF byId THEN SetWhereId(table, key, field, value)
          ELSE SetWhereUsername(table, key, field, value)

\* the update of update_user_profile and update_own_profile: a name that is
\* missing or empty is left alone
SetNames(table, byId, key, data) ==
  LET t1 == IF data.first_name # ""
            THEN SetWhere(table, byId, key, "first_name",
                          encrypt(keyFile, data.first_name, 0))
            ELSE table
  IN  IF data.last_name # ""
      THEN SetWhere(t1, byId, key, "last_name", encrypt(keyFile, data.last_name, 0))
      ELSE t1

\* a hierarchy check that lets a System Administrator act on any account
OutOfReach_Lax(actor_role, target_role) == FALSE

\* update_user_profile, line 118, and delete_user, line 179
OutOfReach(actor_role, target_role) ==
  actor_role = ROLE_SYSTEM_ADMIN /\ target_role # ROLE_SERVICE_ENGINEER

update_user_profile(target_username, new_profile_data) ==
  /\ Permitted("update_user_profile")
  /\ CanLog(1)
  /\ Frame
  /\ IF ~Found(target_username)
     THEN Refuse("update_user_profile", target_username, "", "False", "User not found.")
     ELSE LET target == _find_user_by_username(target_username)
          IN  IF OutOfReach(current_user.role, target.role)
              THEN RefuseLogged("update_user_profile", target_username, "", "False",
                     "System Admins can only update Service Engineer profiles.",
                     "Authorization failed",
                     "Attempted to update profile of " \o target_username
                        \o " (" \o target.role \o ")")
              ELSE IF new_profile_data.first_name = "" /\ new_profile_data.last_name = ""
              THEN Refuse("update_user_profile", target_username, "", "False",
                          "No new data provided for update.")
              ELSE /\ users' = SetNames(users, FALSE, target.username,
                                        new_profile_data)
                   /\ logs' = Append(logs, LogRow(current_user.username,
                                "Updated user profile",
                                "Target Username: " \o target_username, FALSE))
                   /\ last' = Call("update_user_profile", target_username, "", "True",
                                   "User profile updated successfully.")
                   /\ UNCHANGED << travellers, scooters, restore_codes, seq, backups >>

\* a self check that compares the usernames as typed
IsSelf_CaseSensitive(actor_username, target_username) == actor_username = target_username

\* delete_user, line 167
IsSelf(actor_username, target_username) == Lower(actor_username) = Lower(target_username)

\* a check that lets a Super Administrator delete any account
SuperProtected_Lax(actor_role, target_role) == FALSE

\* delete_user, line 184
SuperProtected(actor_role, target_role) ==
  actor_role = ROLE_SUPER_ADMIN /\ target_role = ROLE_SUPER_ADMIN

delete_user(target_username) ==
  /\ Permitted("delete_user")
  /\ CanLog(1)
  /\ Frame
  /\ IF IsSelf(current_user.username, target_username)
     THEN Refuse("delete_user", target_username, "", "False",
                 "You cannot delete your own account this way.")
     ELSE IF ~Found(target_username)
     THEN Refuse("delete_user", target_username, "", "False", "User not found.")
     ELSE LET target == _find_user_by_username(target_username)
          IN  IF OutOfReach(current_user.role, target.role)
              THEN RefuseLogged("delete_user", target_username, "", "False",
                     "System Admins can only delete Service Engineers.",
                     "Authorization failed",
                     "Attempted to delete user " \o target_username
                        \o " (" \o target.role \o ")")
              ELSE IF SuperProtected(current_user.role, target.role)
              THEN Refuse("delete_user", target_username, "", "False",
                          "Super Admins cannot delete other Super Admins.")
              ELSE /\ users' = DeleteWhereUsername(users, target.username)
                   /\ logs' = Append(logs, LogRow(current_user.username, "Deleted user",
                                "Target Username: " \o target_username, TRUE))
                   /\ last' = Call("delete_user", target_username, "", "True",
                                   "User deleted successfully.")
                   /\ UNCHANGED << travellers, scooters, restore_codes, seq, backups >>

\* the temporary passwords secrets.choice may draw
TempPasswords == {"temp-password-1"}

\* reset_user_password checks no role beyond the gate
reset_user_password(target_username) ==
  /\ Permitted("reset_user_password")
  /\ CanLog(1)
  /\ Frame
  /\ IF ~Found(target_username)
     THEN Refuse("reset_user_password", target_username, "", "False", "User not found.")
     ELSE \E temp_password \in TempPasswords :
            /\ users' = SetWhereUsername(users,
                          _find_user_by_username(target_username).username,
                          "password_hash", hash_password(temp_password))
            /\ logs' = Append(logs, LogRow(current_user.username, "Reset user password",
                         "Target Username: " \o target_username, TRUE))
            /\ last' = Call("reset_user_password", target_username, temp_password, "True",
                            "Password has been reset.")
            /\ UNCHANGED << travellers, scooters, restore_codes, seq, backups >>

\* SELECT ... FROM users WHERE id = id
RowsWithId(table, id) == SelectSeq(table, LAMBDA row : row.id = id)

update_own_password(old_password, new_password) ==
  /\ Permitted("update_own_password")
  /\ CanLog(1)
  /\ Frame
  /\ IF ~is_valid_password(new_password)
     THEN Refuse("update_own_password", "", "", "False",
                 "New password does not meet the security requirements.")
     ELSE IF \/ RowsWithId(users, current_user.id) = << >>
             \/ ~verify_password(old_password,
                                 RowsWithId(users, current_user.id)[1].password_hash)
     THEN RefuseLogged("update_own_password", "", "", "False", "Incorrect old password.",
                       "Failed password change", "Incorrect old password")
     ELSE /\ users' = SetWhereId(users, current_user.id, "password_hash",
                                 hash_password(new_password))
          /\ logs' = Append(logs, LogRow(current_user.username, "Changed own password",
                                         "", FALSE))
          /\ last' = Call("update_own_password", "", new_password, "True",
                          "Password updated successfully.")
          /\ UNCHANGED << travellers, scooters, restore_codes, seq, backups >>

\* update_own_profile: the UPDATE is by id and its rowcount is not looked at
update_own_profile(new_profile_data) ==
  /\ Permitted("update_own_profile")
  /\ CanLog(1)
  /\ Frame
  /\ IF new_profile_data.first_name = "" /\ new_profile_data.last_name = ""
     THEN Refuse("update_own_profile", "", "", "False", "No new data provided for update.")
     ELSE /\ users' = SetNames(users, TRUE, current_user.id, new_profile_data)
          /\ logs' = Append(logs, LogRow(current_user.username, "Updated own profile",
                                         "Fields updated", FALSE))
          /\ last' = Call("update_own_profile", "", "", "True",
                          "Profile updated successfully.")
          /\ UNCHANGED << travellers, scooters, restore_codes, seq, backups >>

\* delete_own_account: line 329 looks at the role of the session, the DELETE
\* is by the id of the session
delete_own_account ==
  /\ Permitted("delete_own_account")
  /\ CanLog(1)
  /\ Frame
  /\ IF current_user.role = ROLE_SUPER_ADMIN
     THEN Refuse("delete_own_account", "", "", "False",
                 "The Super Admin account cannot be deleted.")
     ELSE IF RowsWithId(users, current_user.id) = << >>
     THEN Refuse("delete_own_account", "", "", "False",
                 "Could not delete your account.")
     ELSE /\ users' = DeleteWhereId(users, current_user.id)
          /\ logs' = Append(logs, LogRow(current_user.username, "Deleted own account",
                              "Username: " \o current_user.username, TRUE))
          /\ last' = Call("delete_own_account", "", "", "True", "")
          /\ UNCHANGED << travellers, scooters, restore_codes, seq, backups >>

\* add_new_traveller: the eleven validators are folded into the valid flag of
\* the input; a valid traveller is stored as one row and logged
add_new_traveller(traveller) ==
  /\ Permitted("add_new_traveller")
  /\ CanLog(1)
  /\ Frame
  /\ IF ~traveller.valid
     THEN Refuse("add_new_traveller", traveller.email, "", "False", "Invalid field.")
     ELSE /\ seq.travellers < MaxTravellerId
          /\ travellers' = Append(travellers,
               [ id    |-> seq.travellers + 1,
                 email |-> encrypt(keyFile, traveller.email, 0) ])
          /\ seq' = [seq EXCEPT !.travellers = @ + 1]
          /\ logs' = Append(logs, LogRow(current_user.username, "Added new traveller",
                              "Traveller email: " \o traveller.email, FALSE))
          /\ last' = Call("add_new_traveller", traveller.email, "", "True",
                          "Traveller added successfully.")
          /\ UNCHANGED << users, scooters, restore_codes, backups >>

delete_traveller(traveller_id) ==
  /\ Permitted("delete_traveller")
  /\ CanLog(1)
  /\ Frame
  /\ IF RowsWithId(travellers, traveller_id) = << >>
     THEN Refuse("delete_traveller", "", "", "False", "Traveller not found.")
     ELSE /\ travellers' = DeleteWhereId(travellers, traveller_id)
          /\ logs' = Append(logs, LogRow(current_user.username, "Deleted traveller",
                              "Traveller ID: " \o ToString(traveller_id), TRUE))
          /\ last' = Call("delete_traveller", "", "", "True",
                          "Traveller deleted successfully.")
          /\ UNCHANGED << users, scooters, restore_codes, seq, backups >>

\* update_scooter, lines 439-440
service_engineer_fields ==
  { "state_of_charge", "target_range_soc_min", "target_range_soc_max", "location_lat",
    "location_lon", "out_of_service_status", "mileage", "last_maintenance_date" }
admin_fields ==
  service_engineer_fields
    \cup {"brand", "model", "serial_number", "top_speed", "battery_capacity"}

\* add_new_scooter: the values are stored as encrypt(str(value)), the row
\* gets the next id and the time of the call
add_new_scooter(scooter) ==
  /\ Permitted("add_new_scooter")
  /\ CanLog(1)
  /\ Frame
  /\ IF ~is_valid_scooter_serial(scooter.serial_number)
     THEN Refuse("add_new_scooter", scooter.serial_number, "", "False",
                 "Invalid scooter serial number format.")
     ELSE IF ~is_valid_location_coordinate(scooter.location_lat)
     THEN Refuse("add_new_scooter", scooter.serial_number, "", "False",
                 "Invalid latitude format.")
     ELSE IF ~is_valid_location_coordinate(scooter.location_lon)
     THEN Refuse("add_new_scooter", scooter.serial_number, "", "False",
                 "Invalid longitude format.")
     ELSE IF ~is_in_rotterdam_region(Degrees(scooter.location_lat),
                                     Degrees(scooter.location_lon))
     THEN Refuse("add_new_scooter", scooter.serial_number, "", "False",
                 "Location is outside of the Rotterdam region.")
     ELSE IF ~is_valid_iso_date(scooter.last_maintenance_date)
     THEN Refuse("add_new_scooter", scooter.serial_number, "", "False",
                 "Invalid date format.")
     ELSE /\ seq.scooters < MaxScooterId
          /\ scooters' = Append(scooters,
               [ f \in admin_fields \cup {"id", "in_service_date"} |->
                   CASE f = "id" -> seq.scooters + 1
                     [] f = "in_service_date" -> now
                     [] OTHER -> encrypt(keyFile, scooter[f], 0) ])
          /\ seq' = [seq EXCEPT !.scooters = @ + 1]
          /\ logs' = Append(logs, LogRow(current_user.username, "Added new scooter",
                              "Serial: " \o scooter.serial_number, FALSE))
          /\ last' = Call("add_new_scooter", scooter.serial_number, "", "True",
                          "Scooter added successfully.")
          /\ UNCHANGED << users, travellers, restore_codes, backups >>

\* update_scooter, lines 443-444
editable_fields(role) ==
  IF role = ROLE_SERVICE_ENGINEER THEN service_engineer_fields ELSE admin_fields

\* update_scooter, lines 450-458: the value of an editable key is refused
BadValue(key, value) ==
  \/ key \in {"location_lat", "location_lon"} /\ ~is_valid_location_coordinate(value)
  \/ key = "last_maintenance_date" /\ ~is_valid_iso_date(value)
  \/ key = "serial_number" /\ ~is_valid_scooter_serial(value)

\* update_scooter, lines 448-461: the keys of the update that are written
allowed_updates(role, updates) == DOMAIN updates \cap editable_fields(role)

\* UPDATE scooters SET key = encrypt(str(value)), ... WHERE id = scooter_id
SetScooter(table, scooter_id, keys, updates) ==
  [ i \in 1..Len(table) |->
      IF table[i].id = scooter_id
      THEN [ f \in DOMAIN table[i] |->
               IF f \in keys THEN encrypt(keyFile, updates[f], 0) ELSE table[i][f] ]
      ELSE table[i] ]

\* update_scooter: updates is the dict of the call, a function from keys to
\* the str() of the values
update_scooter(scooter_id, updates) ==
  /\ Permitted("update_scooter")
  /\ CanLog(1)
  /\ Frame
  /\ LET keys == allowed_updates(current_user.role, updates)
     IN  IF \E k \in keys : BadValue(k, updates[k])
         THEN Refuse("update_scooter", "", "", "False", "Invalid format.")
         ELSE IF keys = {}
         THEN Refuse("update_scooter", "", "", "False",
                     "No valid fields to update or all updates were unauthorized.")
         ELSE IF RowsWithId(scooters, scooter_id) = << >>
         THEN Refuse("update_scooter", "", "", "False", "Scooter not found.")
         ELSE /\ scooters' = SetScooter(scooters, scooter_id, keys, updates)
              /\ logs' = Append(logs, LogRow(current_user.username, "Updated scooter",
                                  "ID: " \o ToString(scooter_id), FALSE))
              /\ last' = Call("update_scooter", "", "", "True",
                              "Scooter updated successfully.")
              /\ UNCHANGED << users, travellers, restore_codes, seq, backups >>

\* an archive that leaves the restore codes out
Archive_NoCodes ==
  [ exists |-> TRUE, users |-> users, travellers |-> travellers,
    scooters |-> scooters, logs |-> logs, restore_codes |-> << >>,
    seq |-> [seq EXCEPT !.restore_codes = 0] ]

\* the archive create_backup writes: the store file as it is
Archive ==
  [ exists |-> TRUE, users |-> users, travellers |-> travellers,
    scooters |-> scooters, logs |-> logs, restore_codes |-> restore_codes,
    seq |-> seq ]

\* create_backup: the archive is named after the second, a second archive
\* made in the same second replaces the first; the entry is written after
\* the archive is closed
create_backup ==
  /\ Permitted("create_backup")
  /\ CanLog(1)
  /\ Frame
  /\ backups' = [backups EXCEPT ![now] = Archive]
  /\ logs' = Append(logs, LogRow(current_user.username, "Created backup",
                                 "File: " \o ToString(now), FALSE))
  /\ last' = Call("create_backup", "", "", "True", "Successfully created backup")
  /\ UNCHANGED tables

\* the codes secrets.token_hex(16) may return
Codes == {"code-a", "code-b"}

\* generate_restore_code: no check of the target or of the file; code is what
\* secrets.token_hex(16) returns, a value not handed out before
generate_restore_code(target_system_admin_username, backup_filename, code) ==
  /\ Permitted("generate_restore_code")
  /\ CanLog(1)
  /\ Frame
  /\ \A i \in 1..Len(restore_codes) : decrypt(keyFile, restore_codes[i].code) # code
  /\ restore_codes' = Append(restore_codes,
       [ id                    |-> seq.restore_codes + 1,
         code                  |-> encrypt(keyFile, code, seq.restore_codes + 1),
         backup_filename       |-> backup_filename,
         system_admin_username |-> target_system_admin_username,
         is_used               |-> 0,
         generated_at          |-> now ])
  /\ seq' = [seq EXCEPT !.restore_codes = @ + 1]
  /\ logs' = Append(logs, LogRow(current_user.username, "Generated restore code",
                                 "For user " \o target_system_admin_username
                                    \o ", file " \o ToString(backup_filename), FALSE))
  /\ last' = Call("generate_restore_code", target_system_admin_username, "",
                  code, "Restore Code Generated")
  /\ UNCHANGED << users, travellers, scooters, backups >>

\* UPDATE restore_codes SET is_used = 1 WHERE id = id, committed
MarkUsed(table, id) == SetWhereId(table, id, "is_used", 1)

\* the unused codes, in rowid order
UnusedCodes(table) == SelectSeq(table, LAMBDA row : row.is_used = 0)

revoke_restore_code(code_to_revoke) ==
  /\ Permitted("revoke_restore_code")
  /\ CanLog(1)
  /\ Frame
  /\ LET hits == SelectSeq(UnusedCodes(restore_codes),
                           LAMBDA row : decrypt(keyFile, row.code) = code_to_revoke)
     IN  IF hits = << >>
         THEN Refuse("revoke_restore_code", code_to_revoke, "", "False",
                     "Active restore code not found.")
         ELSE /\ restore_codes' = MarkUsed(restore_codes, hits[1].id)
              /\ logs' = Append(logs, LogRow(current_user.username,
                                  "Revoked restore code",
                                  "Code ID: " \o ToString(hits[1].id), TRUE))
              /\ last' = Call("revoke_restore_code", code_to_revoke, "", "True",
                              "Restore code has been successfully revoked.")
              /\ UNCHANGED << users, travellers, scooters, seq, backups >>

\* restore_from_backup, lines 870-874: fetchone() of the unused codes issued to
\* this username for this file
CodeRows(table, username, backup_filename) ==
  SelectSeq(UnusedCodes(table),
            LAMBDA row : /\ row.system_admin_username = username
                         /\ row.backup_filename = backup_filename)

\* a restore that looks for the archive only when it extracts it
MissingFile_Unchecked(archive) == FALSE

\* restore_from_backup, lines 857-860: os.path.exists of the archive
MissingFile(archive) == ~archive.exists

\* restore_from_backup, line 876: the code the caller may restore this file
\* with is the one of the first unused row issued to the caller for the file
Authorizes(table, username, backup_filename, restore_code) ==
  /\ CodeRows(table, username, backup_filename) # << >>
  /\ decrypt(keyFile, CodeRows(table, username, backup_filename)[1].code) = restore_code

\* restore_from_backup: a System Administrator needs the code, the code is
\* marked used before the archive is extracted over the store, and the entry
\* goes into the restored store.  restore_code "" stands for None; zipfile
\* may raise, and does when there is no archive
restore_from_backup(backup_filename, restore_code) ==
  /\ Permitted("restore_from_backup")
  /\ Frame
  /\ LET rows == CodeRows(restore_codes, current_user.username, backup_filename)
         archive == backups[backup_filename]
         file == ToString(backup_filename)
     IN  IF MissingFile(archive)
         THEN Refuse("restore_from_backup", file, restore_code, "False",
                     "Backup file not found.")
         ELSE IF current_user.role = ROLE_SYSTEM_ADMIN /\ restore_code = ""
         THEN Refuse("restore_from_backup", file, restore_code, "False",
                     "A restore code is required for System Administrators.")
         ELSE IF /\ current_user.role = ROLE_SYSTEM_ADMIN
                 /\ ~Authorizes(restore_codes, current_user.username,
                                backup_filename, restore_code)
         THEN /\ CanLog(1)
              /\ RefuseLogged("restore_from_backup", file, restore_code, "False",
                              "Invalid, expired, or incorrect restore code.",
                              "Failed backup restore",
                              "Invalid code used for " \o file)
         ELSE \E extracted \in (IF archive.exists THEN BOOLEAN ELSE {FALSE}) :
                IF extracted
                THEN /\ Len(archive.logs) < MaxLog
                     /\ users' = archive.users
                     /\ travellers' = archive.travellers
                     /\ scooters' = archive.scooters
                     /\ restore_codes' = archive.restore_codes
                     /\ seq' = archive.seq
                     /\ logs' = Append(archive.logs,
                          [ LogRow(current_user.username, "Restored from backup",
                                   "File: " \o file, TRUE)
                            EXCEPT !.id = Len(archive.logs) + 1 ])
                     /\ last' = Call("restore_from_backup", file, restore_code, "True",
                                     "System Restored")
                     /\ UNCHANGED backups
                ELSE \* zipfile raises: the store stays, the code stays used
                     /\ restore_codes' =
                          IF current_user.role = ROLE_SYSTEM_ADMIN
                          THEN MarkUsed(restore_codes, rows[1].id)
                          ELSE restore_codes
                     /\ last' = Call("restore_from_backup", file, restore_code, "False",
                                     "An error occurred during restore")
                     /\ UNCHANGED << users, travellers, scooters, logs, seq, backups >>

(* ------------------------------ logger.py ----------------------------- *)
\* get_logs, line 40: ORDER BY date DESC, time DESC LIMIT limit.  The sets of
\* ids the SELECT may return: limit rows (all, when there are fewer), none of
\* them older than a row left out; rows of one second come in any order
Fetched(limit) ==
  { ids \in SUBSET { logs[i].id : i \in 1..Len(logs) } :
      /\ Cardinality(ids) = (IF limit < Len(logs) THEN limit ELSE Len(logs))
      /\ \A i, j \in 1..Len(logs) :
           ( logs[i].id \in ids /\ logs[j].id \notin ids )
           => logs[i].date >= logs[j].date }

\* SecureLogger.mark_logs_as_read: UPDATE logs SET is_read = 1 WHERE id IN ids
mark_logs_as_read(table, ids) ==
  [ i \in 1..Len(table) |->
      IF table[i].id \in ids THEN [table[i] EXCEPT !.is_read = 1] ELSE table[i] ]

\* SecureLogger.get_logs(limit): every fetched row is handed to
\* mark_logs_as_read; last.result is the set of ids returned
get_logs(limit) ==
  /\ AtPrompt
  /\ \E ids \in Fetched(limit) :
       /\ logs' = mark_logs_as_read(logs, ids)
       /\ last' = Call("get_logs", ToString(limit), "", ToString(ids), "")
  /\ UNCHANGED << blob, proc, keyFile, now, tables, backups, memory >>

\* SecureLogger.check_unread_alerts: SELECT COUNT(*) of the suspicious unread
check_unread_alerts ==
  /\ AtPrompt
  /\ last' = Call("check_unread_alerts", "", "",
                  ToString(Cardinality({ i \in 1..Len(logs) :
                     logs[i].suspicious = 1 /\ logs[i].is_read = 0 })), "")
  /\ UNCHANGED << blob, proc, keyFile, now, store, backups, memory >>

\* main.py, line 354: the limit handle_view_logs asks for
ViewLimit == 25

\* handle_view_logs, the "View system logs" choice of the administrators'
\* menus: get_logs, then the list comprehension of line 358 reads
\* log['is_read'], a key the dicts of get_logs do not have, for every
\* returned entry whose is_suspicious is 'Yes': KeyError leaves main()
handle_view_logs ==
  /\ AtPrompt
  /\ current_user.role \in {ROLE_SUPER_ADMIN, ROLE_SYSTEM_ADMIN}
  /\ \E ids \in Fetched(ViewLimit) :
       /\ logs' = mark_logs_as_read(logs, ids)
       /\ IF \E i \in 1..Len(logs) : logs[i].id \in ids /\ logs[i].suspicious = 1
          THEN /\ proc' = "crashed"
               /\ last' = Call("handle_view_logs", "", "", "Fault", "KeyError")
          ELSE /\ proc' = "running"
               /\ last' = Call("handle_view_logs", "", "", ToString(ids), "System Logs")
  /\ UNCHANGED << blob, keyFile, now, tables, backups, memory >>

(* --------------------------- specifications --------------------------- *)
LoginAction == \E u \in LoginNames, p \in LoginPasswords : Login(u, p)

\* what the operator types into the user services
TargetNames == {"super_admin", "SYS_ADMIN", "service_eng", "eng_user1", "nobody_99"}
NewNames == {"eng_user1", "1bad"}
NewPasswords == {"Abcdefg1234!", "alllowercase1"}
ProfileData == { [first_name |-> "Alice", last_name |-> ""],
                 [first_name |-> "", last_name |-> ""] }
TravellerData == { [email |-> "anna@mail.nl", valid |-> TRUE],
                   [email |-> "anna-at-mail", valid |-> FALSE] }
SessionNames == {"super_admin", "sys_admin", "service_eng", "eng_user1"}
SessionPasswords == {"Admin_123?", "SysAdmin_123?", "ServiceEng_123?", "Abcdefg1234!"}

GateAction == \E op \in Operations : Denied(op)

NoIdentityAction == \E op \in Operations : DeniedNoIdentity(op)

UserAction ==
  \/ \E u \in NewNames, p \in NewPasswords, r \in Roles :
        add_new_user(u, p, r, "New", "User")
  \/ \E u \in TargetNames, d \in ProfileData : update_user_profile(u, d)
  \/ \E u \in TargetNames : delete_user(u)
  \/ \E u \in TargetNames : reset_user_password(u)
  \/ \E old \in SessionPasswords, new \in NewPasswords : update_own_password(old, new)
  \/ \E d \in ProfileData : update_own_profile(d)
  \/ delete_own_account

TravellerAction ==
  \/ \E t \in TravellerData : add_new_traveller(t)
  \/ \E id \in 1..MaxTravellerId : delete_traveller(id)

SessionLogin == \E u \in SessionNames, p \in SessionPasswords : Login(u, p)

\* the user services behind the gate, within one run of the program
NextAdmin ==
  \/ Start(FirstKey) /\ seq.users = 0
  \/ Return
  \/ SessionLogin
  \/ Logout
  \/ NoIdentityAction
  \/ Len(logs) < MaxAdminLog /\ UserAction

SpecAdmin == Init /\ [][NextAdmin]_vars

\* the gate in front of every service, within one run of the program
NextGate ==
  \/ Start(FirstKey) /\ seq.users = 0
  \/ Return
  \/ SessionLogin
  \/ Logout
  \/ NoIdentityAction
  \/ Len(logs) < MaxGateLog /\ GateAction
  \/ TravellerAction

SpecGate == Init /\ [][NextGate]_vars

\* the process life cycle and the login prompt
NextAuth ==
  \/ \E k \in Keys : Start(k)
  \/ Quit
  \/ Tick
  \/ Return
  \/ LoginAction
  \/ Logout

SpecAuth == Init /\ [][NextAuth]_vars

\* what is typed into the scooter services
NewScooters ==
  LET good == [ serial_number |-> "SCOOT12345", brand |-> "Segway", model |-> "Max",
                top_speed |-> "25", battery_capacity |-> "500", state_of_charge |-> "90",
                target_range_soc_min |-> "20", target_range_soc_max |-> "80",
                location_lat |-> "51.92250", location_lon |-> "4.47917",
                mileage |-> "0", last_maintenance_date |-> "2024-01-15",
                out_of_service_status |-> "False" ]
  IN  { good,
        [good EXCEPT !.serial_number = "bad serial"],
        [good EXCEPT !.location_lat = "51.9"],
        [good EXCEPT !.location_lat = "53.00000"],
        [good EXCEPT !.last_maintenance_date = "15-01-2024"] }

ScooterUpdates ==
  { [state_of_charge |-> "55"],
    [brand |-> "Other", mileage |-> "120"],
    [serial_number |-> "bad serial", top_speed |-> "45"],
    [location_lat |-> "51.9"],
    [location_lat |-> "53.00000"],
    [last_maintenance_date |-> "2024-01-15", location_lat |-> "51.92250",
     battery_capacity |-> "600", model |-> "Pro"] }

ScooterAction ==
  \/ \E sc \in NewScooters : add_new_scooter(sc)
  \/ \E id \in 1..MaxScooterId, u \in ScooterUpdates : update_scooter(id, u)

OwnAccountAction ==
  \/ \E old \in SessionPasswords, new \in NewPasswords : update_own_password(old, new)
  \/ \E d \in ProfileData : update_own_profile(d)

\* the fleet and the caller's own account, within one run of the program
NextFleet ==
  \/ Start(FirstKey) /\ seq.users = 0
  \/ Return
  \/ SessionLogin
  \/ Logout
  \/ ScooterAction
  \/ OwnAccountAction
  \/ TravellerAction

SpecFleet == Init /\ [][NextFleet]_vars

\* what the operator types while backups are made and restored
AdminLogins == { << "super_admin", "Admin_123?" >>, << "eng_user1", "Abcdefg1234!" >> }
IssuedCodes == {"code-a"}

AccountAction ==
  \/ \E c \in AdminLogins : Login(c[1], c[2])
  \/ add_new_user("eng_user1", "Abcdefg1234!", ROLE_SYSTEM_ADMIN, "New", "User")
  \/ delete_user("eng_user1")
  \/ delete_own_account

BackupAction ==
  \/ create_backup
  \/ \E f \in Filenames, c \in IssuedCodes :
       seq.restore_codes < MaxCodeId /\ generate_restore_code("eng_user1", f, c)
  \/ \E c \in IssuedCodes : revoke_restore_code(c)
  \/ \E f \in Filenames, c \in IssuedCodes \cup {""} : restore_from_backup(f, c)

\* backups and restores across runs of the program
NextRestore ==
  \/ Start(FirstKey)
  \/ Quit
  \/ Tick
  \/ Return
  \/ AccountAction
  \/ BackupAction

SpecRestore == Init /\ [][NextRestore]_vars

\* what the operator types while one run of the program makes backups, issues
\* codes and restores
KeeperLogin ==
  \E c \in { << "super_admin", "Admin_123?" >>, << "sys_admin", "SysAdmin_123?" >> } :
    Login(c[1], c[2])

KeeperAction ==
  \/ create_backup
  \/ \E f \in Filenames, c \in IssuedCodes :
       seq.restore_codes < MaxCodeId /\ generate_restore_code("sys_admin", f, c)
  \/ \E t \in TravellerData : add_new_traveller(t)

RestoreAction ==
  \/ \E f \in Filenames, c \in IssuedCodes \cup {""} : restore_from_backup(f, c)
  \/ \E c \in IssuedCodes : revoke_restore_code(c)

\* backups and restores within one run of the program
NextBackup ==
  \/ Start(FirstKey) /\ seq.users = 0
  \/ Tick
  \/ Return
  \/ KeeperLogin
  \/ Logout
  \/ Len(logs) < MaxBackupLog /\ KeeperAction
  \/ RestoreAction

SpecBackup == Init /\ [][NextBackup]_vars

(* ---------------- the EncryptionManager on its own ---------------------- *)
\* what the calls below leave alone
besides == << proc, keyFile, now, store, backups, memory, last >>

\* encrypt(data) of the running program's manager
EncryptCall(data, iv) ==
  /\ proc = "running"
  /\ blob.stage # "encrypted"
  /\ blob' = [ stage |-> "encrypted", text |-> data, origin |-> "own",
               token |-> EncryptionManager_encrypt(keyFile, Str(data), iv),
               out |-> Raised("none") ]
  /\ UNCHANGED besides

\* bytes arrive that a manager with another key file encrypted
ForeignToken(key, data, iv) ==
  /\ proc = "running"
  /\ blob.stage # "encrypted"
  /\ key # keyFile
  /\ blob' = [ stage |-> "encrypted", text |-> data, origin |-> "foreign",
               token |-> EncryptionManager_encrypt(key, Str(data), iv),
               out |-> Raised("none") ]
  /\ UNCHANGED besides

\* ways the bytes of a token get damaged: the version byte, the iv, the
\* ciphertext, the HMAC
Damages == {"version", "iv", "ciphertext", "hmac"}
Corrupted(token, damage) ==
  CASE damage = "version"    -> [token EXCEPT !.version = 0]
    [] damage = "iv"         -> [token EXCEPT !.iv = 1 - @]
    [] damage = "ciphertext" -> [token EXCEPT !.ciphertext.data = << 0 >> \o @]
    [] damage = "hmac"       -> [token EXCEPT !.hmac.k = NoKey]

\* the stored bytes are damaged before they are read back
Corrupt(damage) ==
  /\ blob.stage = "encrypted"
  /\ blob.origin = "own"
  /\ blob' = [blob EXCEPT !.origin = "corrupted",
                          !.token = Bytes(Corrupted(@.v, damage))]
  /\ UNCHANGED besides

\* decrypt(encrypted_data) of the running program's manager
DecryptCall ==
  /\ proc = "running"
  /\ blob.stage = "encrypted"
  /\ blob' = [blob EXCEPT !.stage = "decrypted",
                          !.out = EncryptionManager_decrypt(keyFile, blob.token)]
  /\ UNCHANGED besides

NextCrypto ==
  \/ \E key \in Keys : Start(key) /\ seq.users = 0
  \/ \E data \in Texts, iv \in Ivs : EncryptCall(data, iv)
  \/ \E key \in Keys, data \in Texts, iv \in Ivs : ForeignToken(key, data, iv)
  \/ \E damage \in Damages : Corrupt(damage)
  \/ DecryptCall

SpecCrypto == Init /\ [][NextCrypto]_vars

(* ------------------- several codes for one restore -------------------- *)
\* the Super Administrator issues a code more than once for one System
\* Administrator and one file, over runs of the program
NextCodes ==
  \/ Start(FirstKey)
  \/ Quit
  \/ Return
  \/ KeeperLogin
  \/ create_backup
  \/ \E f \in Filenames, c \in Codes :
       seq.restore_codes < MaxCodeId + 1 /\ generate_restore_code("sys_admin", f, c)
  \/ \E f \in Filenames, c \in Codes : restore_from_backup(f, c)

SpecCodes == Init /\ [][NextCodes]_vars

(* ---------------------- deleting a seeded account ---------------------- *)
\* what is typed at the login prompt by the Super Administrator and by the
\* Service Engineer whose account is deleted
LeaverLogin ==
  \E c \in { << "super_admin", "Admin_123?" >>, << "service_eng", "ServiceEng_123?" >>,
             << "Service_Eng", "ServiceEng_123?" >> } :
    Login(c[1], c[2])

\* accounts are deleted and nobody is added, over runs of the program
NextDelete ==
  \/ Start(FirstKey)
  \/ Quit
  \/ Return
  \/ LeaverLogin
  \/ Logout
  \/ \E target \in {"service_eng", "sys_admin"} : delete_user(target)

SpecDelete == Init /\ [][NextDelete]_vars

(* ------------------------ reading the audit log ------------------------ *)
\* rows asked of get_logs when it is called on its own
MaxLimit == 2

\* what is typed at the login prompt while the log is read
ReaderLogin ==
  \E c \in { << "super_admin", "Admin_123?" >>, << "super_admin", "wrong" >> } :
    Login(c[1], c[2])

NextLog ==
  \/ Start(FirstKey)
  \/ Tick
  \/ Return
  \/ ReaderLogin
  \/ Logout
  \/ handle_view_logs
  \/ \E limit \in 1..MaxLimit : get_logs(limit)
  \/ check_unread_alerts

SpecLog == Init /\ [][NextLog]_vars

(* ------------------------------ claims -------------------------------- *)
\* what the audit log says about a lowercased username: the failed logins
\* since its last "Logged in" entry, and the time of the last of them
RECURSIVE StreakFrom(_, _)
StreakFrom(key, i) ==
  IF i = 0 THEN 0
  ELSE LET actor == Lower(decrypt(keyFile, logs[i].username))
           activity == decrypt(keyFile, logs[i].activity)
       IN  IF actor = key /\ activity = "Logged in" THEN 0
           ELSE IF actor = key /\ activity = "Unsuccessful login"
                THEN 1 + StreakFrom(key, i - 1)
                ELSE StreakFrom(key, i - 1)

FailStreak(key) == StreakFrom(key, Len(logs))

FailedEntries(key) ==
  { i \in 1..Len(logs) :
      /\ Lower(decrypt(keyFile, logs[i].username)) = key
      /\ decrypt(keyFile, logs[i].activity) = "Unsuccessful login" }

LastFailTime(key) ==
  LET i == CHOOSE j \in FailedEntries(key) : \A m \in FailedEntries(key) : m <= j
  IN  logs[i].date

\* the step is a call of login() with this username
IsLogin(username) == last = NoCall /\ last'.op = "login" /\ last'.arg = username

\* the password the first row of this username was stored with is the one typed
CorrectPassword(username, password) ==
  /\ MatchingRows(users, username) # << >>
  /\ verify_password(password, MatchingRows(users, username)[1].password_hash)

\* C1: after n consecutive failed logins of a username (any case), for every
\* threshold n and lockout length L, a login attempt of that username less
\* than L seconds after the last failure ends in Locked: no password is
\* asked for and no identity is returned.
C1_LockedAfterFailures ==
  [][ \A u \in LoginNames, n \in 1..MaxThreshold, L \in 1..MaxTime + 1 :
        ( /\ IsLogin(u)
          /\ FailStreak(Lower(u)) >= n
          /\ now - LastFailTime(Lower(u)) < L )
        => ( /\ last'.result = "Locked"
             /\ last'.arg2 = ""
             /\ current_user' = NoUser ) ]_vars

C4_FailedLoginAudited ==
  [][ \A u \in LoginNames :
        ( IsLogin(u) /\ last'.arg2 # "" /\ last'.result # "Success" )
        => ( /\ Len(logs') = Len(logs) + 1
             /\ SubSeq(logs', 1, Len(logs)) = logs
             /\ logs'[Len(logs')].suspicious = 1
             /\ decrypt(keyFile, logs'[Len(logs')].username) = u
             /\ decrypt(keyFile, logs'[Len(logs')].info) =
                  ( IF MatchingRows(users, u) = << >> THEN "Username not found"
                                                      ELSE "Wrong password" )
             /\ last'.msg = "Invalid username or password." ) ]_vars

C4_Witness ==
  /\ Len(logs) >= 2
  /\ \E i, j \in 1..Len(logs) :
       /\ logs[i].suspicious = 1 /\ logs[j].suspicious = 1
       /\ decrypt(keyFile, logs[i].info) = "Username not found"
       /\ decrypt(keyFile, logs[j].info) = "Wrong password"

\* the step is a call of this operation
IsCall(op) == last = NoCall /\ last'.op = op

\* the step appends exactly one audit entry, a suspicious one
OneSuspiciousEntry ==
  /\ Len(logs') = Len(logs) + 1
  /\ SubSeq(logs', 1, Len(logs)) = logs
  /\ logs'[Len(logs')].suspicious = 1

\* C5: a call of a gated operation by an identity whose role is not among
\* the operation's allowed roles (a Service Engineer calling add_new_user,
\* delete_traveller or restore_from_backup among them) returns None, leaves
\* the users, travellers, scooters and restore_codes tables, their id
\* counters and the backup files as they are, and appends one suspicious
\* entry under the caller's name whose details name the operation.
C5_GateDenial ==
  [][ \A op \in Operations :
        ( /\ IsCall(op)
          /\ current_user # NoUser
          /\ \/ current_user.role \notin AllowedRoles[op]
             \/ /\ current_user.role = ROLE_SERVICE_ENGINEER
                /\ op \in {"add_new_user", "delete_traveller", "restore_from_backup"} )
        => ( /\ last'.result = "None"
             /\ UNCHANGED << tables, backups >>
             /\ OneSuspiciousEntry
             /\ decrypt(keyFile, logs'[Len(logs')].username) = current_user.username
             /\ decrypt(keyFile, logs'[Len(logs')].info) = "Attempted to use " \o op ) ]_vars

C5_Witness ==
  /\ last.op = "delete_traveller"
  /\ last.result = "None"
  /\ current_user.role = ROLE_SERVICE_ENGINEER
  /\ users # << >>
  /\ logs[Len(logs)].suspicious = 1
  /\ decrypt(keyFile, logs[Len(logs)].info) = "Attempted to use delete_traveller"

\* C6: every refusal on authorization grounds appends a suspicious entry:
\* the gate turning a call away, with or without an identity; add_new_user
\* asked for a Super Administrator, or asked by a System Administrator for a
\* System Administrator (username and password being well-formed);
\* delete_user asked by a Super Administrator for a Super Administrator;
\* update_user_profile and delete_user asked by a System Administrator for
\* an account that is not a Service Engineer.
AuthorizationRefusal ==
  \/ \E op \in Operations :
       /\ IsCall(op)
       /\ current_user = NoUser \/ current_user.role \notin AllowedRoles[op]
  \/ /\ IsCall("add_new_user")
     /\ current_user.role \in AllowedRoles["add_new_user"]
     /\ last'.msg \notin {"Invalid username format.", "Invalid password format."}
     /\ \/ last'.arg2 = ROLE_SUPER_ADMIN
        \/ current_user.role = ROLE_SYSTEM_ADMIN /\ last'.arg2 = ROLE_SYSTEM_ADMIN
  \/ /\ IsCall("delete_user") \/ IsCall("update_user_profile")
     /\ current_user.role \in {ROLE_SUPER_ADMIN, ROLE_SYSTEM_ADMIN}
     /\ Lower(last'.arg) # Lower(current_user.username)
     /\ Found(last'.arg)
     /\ LET target == _find_user_by_username(last'.arg)
        IN  \/ /\ current_user.role = ROLE_SYSTEM_ADMIN
               /\ target.role # ROLE_SERVICE_ENGINEER
            \/ /\ IsCall("delete_user")
               /\ current_user.role = ROLE_SUPER_ADMIN
               /\ target.role = ROLE_SUPER_ADMIN

C6_RefusalsLogged ==
  [][ AuthorizationRefusal => OneSuspiciousEntry /\ UNCHANGED tables ]_vars

\* the row of the users table with this id, as a set of at most one row
RowOf(table, id) == { table[i] : i \in { j \in 1..Len(table) : table[j].id = id } }

\* C7: delete_user called by a System Administrator removes the row of the
\* target when the target is a Service Engineer and leaves every other row,
\* and removes nothing when the target is a System Administrator or a Super
\* Administrator; no call of delete_user, by any actor, removes the row the
\* actor logged in with.
C7_DeleteUserHierarchy ==
  [][ IsCall("delete_user") =>
        /\ RowOf(users', current_user.id) = RowOf(users, current_user.id)
        /\ ( /\ current_user.role = ROLE_SYSTEM_ADMIN
             /\ Found(last'.arg)
             /\ Lower(last'.arg) # Lower(current_user.username) )
           => LET target == _find_user_by_username(last'.arg)
              IN  IF target.role = ROLE_SERVICE_ENGINEER
                  THEN /\ last'.result = "True"
                       /\ RowOf(users', target.id) = {}
                       /\ Len(users') = Len(users) - 1
                       /\ \A i \in 1..Len(users) :
                            users[i].id # target.id
                              => RowOf(users', users[i].id) = {users[i]}
                  ELSE /\ last'.result = "False"
                       /\ users' = users ]_vars

C7_Witness ==
  /\ last.op = "delete_user"
  /\ last.arg = "service_eng"
  /\ last.result = "True"
  /\ current_user.role = ROLE_SYSTEM_ADMIN
  /\ ~Found("service_eng")
  /\ Found("sys_admin") /\ Found("super_admin")

\* the stored fields of an account a profile update or a password reset writes
Credentials(row) ==
  [ first_name |-> row.first_name, last_name |-> row.last_name,
    password_hash |-> row.password_hash ]

\* C8: no call made by a System Administrator changes the first name, the
\* last name or the password hash of a System Administrator's or a Super
\* Administrator's row other than the caller's own, and update_user_profile
\* and reset_user_password called by a System Administrator return True only
\* for a target that is a Service Engineer.
C8_AdminsOutOfReach ==
  [][ ( last = NoCall /\ last' # NoCall /\ current_user.role = ROLE_SYSTEM_ADMIN ) =>
        /\ \A i \in 1..Len(users) :
             ( /\ users[i].role \in {ROLE_SYSTEM_ADMIN, ROLE_SUPER_ADMIN}
               /\ users[i].id # current_user.id )
             => \A row \in RowOf(users', users[i].id) :
                  Credentials(row) = Credentials(users[i])
        /\ ( /\ last'.op \in {"update_user_profile", "reset_user_password"}
             /\ last'.result = "True" )
           => _find_user_by_username(last'.arg).role = ROLE_SERVICE_ENGINEER ]_vars

\* C9: add_new_user adds at most one row, with the username and the role
\* asked for, and never a Super Administrator; called by a System
\* Administrator it adds a row only for the role Service Engineer; called by
\* a Super Administrator with a well-formed username and password it adds
\* the row for the roles System Administrator and Service Engineer; a call
\* that does not return True leaves the users table as it is.
C9_CreatableRoles ==
  [][ IsCall("add_new_user") =>
        LET role == last'.arg2
            wellFormed == last'.msg \notin {"Invalid username format.",
                                            "Invalid password format."}
        IN  /\ last'.result # "True" => users' = users
            /\ last'.result = "True" =>
                 /\ Len(users') = Len(users) + 1
                 /\ SubSeq(users', 1, Len(users)) = users
                 /\ users'[Len(users')].role = role
                 /\ decrypt(keyFile, users'[Len(users')].username) = last'.arg
                 /\ role # ROLE_SUPER_ADMIN
                 /\ current_user.role = ROLE_SYSTEM_ADMIN => role = ROLE_SERVICE_ENGINEER
            /\ ( /\ current_user.role = ROLE_SUPER_ADMIN
                 /\ role \in {ROLE_SYSTEM_ADMIN, ROLE_SERVICE_ENGINEER}
                 /\ wellFormed )
               => last'.result = "True"
            /\ ( /\ current_user.role = ROLE_SYSTEM_ADMIN
                 /\ role = ROLE_SERVICE_ENGINEER
                 /\ wellFormed )
               => last'.result = "True" ]_vars

C9_Witness ==
  /\ last.op = "add_new_user"
  /\ last.result = "True"
  /\ last.arg2 = ROLE_SYSTEM_ADMIN
  /\ current_user.role = ROLE_SUPER_ADMIN
  /\ users[Len(users)].role = ROLE_SYSTEM_ADMIN
  /\ decrypt(keyFile, users[Len(users)].username) = "eng_user1"

\* C10: no call of delete_user or delete_own_account, by any caller,
\* removes or alters a row whose role is Super Administrator.
C10_SuperAdminStays ==
  [][ ( IsCall("delete_user") \/ IsCall("delete_own_account") ) =>
        \A i \in 1..Len(users) :
          users[i].role = ROLE_SUPER_ADMIN
            => RowOf(users', users[i].id) = {users[i]} ]_vars

\* C11: delete_own_account called by a System Administrator or by a Service
\* Engineer whose row is in the store returns True, removes the row with the
\* caller's id and leaves every other row as it is.
C11_SelfDelete ==
  [][ ( /\ IsCall("delete_own_account")
        /\ current_user.role \in {ROLE_SYSTEM_ADMIN, ROLE_SERVICE_ENGINEER}
        /\ RowOf(users, current_user.id) # {} )
      => ( /\ last'.result = "True"
           /\ RowOf(users', current_user.id) = {}
           /\ Len(users') = Len(users) - 1
           /\ \A i \in 1..Len(users) :
                users[i].id # current_user.id
                  => RowOf(users', users[i].id) = {users[i]} ) ]_vars

\* the scooter rows differ at most in the fields a Service Engineer may write
OnlyServiceFieldsChange ==
  /\ Len(scooters') = Len(scooters)
  /\ \A i \in 1..Len(scooters) :
       \A f \in DOMAIN scooters[i] \ service_engineer_fields :
         scooters'[i][f] = scooters[i][f]

\* the users rows differ at most in the password hash of the row with this id
OnlyOwnPasswordChanges(id) ==
  /\ Len(users') = Len(users)
  /\ \A i \in 1..Len(users) :
       \/ users'[i] = users[i]
       \/ /\ users[i].id = id
          /\ users'[i] = [users[i] EXCEPT !.password_hash = users'[i].password_hash]

\* C12: a call made by a Service Engineer leaves the travellers table as it
\* is and changes nothing in the users table but the password hash of the
\* caller's own row; update_scooter called by a Service Engineer leaves
\* brand, model, serial_number, top_speed and battery_capacity (and id and
\* in_service_date) of every scooter as they are, whatever keys the update has.
C12_ServiceEngineerReach ==
  [][ ( last = NoCall /\ last' # NoCall /\ current_user.role = ROLE_SERVICE_ENGINEER )
      => ( /\ travellers' = travellers
           /\ OnlyOwnPasswordChanges(current_user.id)
           /\ IsCall("update_scooter") => OnlyServiceFieldsChange ) ]_vars

\* the file a call of restore_from_backup named
FileOf(call) == CHOOSE f \in Filenames : ToString(f) = call.arg

\* C13: when restore_from_backup has returned True to a System Administrator,
\* the code it was called with no longer authorizes that caller for that
\* file, so that the same call made again takes the refusal of lines 876-880
\* (False, nothing extracted, one suspicious entry).
C13_CodeSingleUse ==
  ( /\ proc = "running"
    /\ last.op = "restore_from_backup"
    /\ last.result = "True"
    /\ current_user.role = ROLE_SYSTEM_ADMIN )
  => ~Authorizes(restore_codes, current_user.username, FileOf(last), last.arg2)

\* some unused code issued to this username for this file equals the code
IssuedUnused(table, username, backup_filename, restore_code) ==
  /\ restore_code # ""
  /\ \E i \in 1..Len(table) :
       /\ table[i].is_used = 0
       /\ table[i].system_admin_username = username
       /\ table[i].backup_filename = backup_filename
       /\ decrypt(keyFile, table[i].code) = restore_code

\* C14: restore_from_backup called by a System Administrator for a file that
\* exists returns True only when the code equals an unused code issued to
\* the caller's username for that file; with any other code or none it
\* returns False, leaves every table (the used flags among them) and the
\* backups as they are, and appends one suspicious entry.
C14_CodeMustMatch ==
  [][ ( /\ IsCall("restore_from_backup")
        /\ current_user.role = ROLE_SYSTEM_ADMIN
        /\ backups[FileOf(last')].exists )
      => LET valid == IssuedUnused(restore_codes, current_user.username,
                                   FileOf(last'), last'.arg2)
         IN  /\ last'.result = "True" => valid
             /\ ~valid => /\ last'.result = "False"
                          /\ UNCHANGED << tables, backups >>
                          /\ OneSuspiciousEntry ]_vars

\* the step is a call of restore_from_backup by a System Administrator with
\* the code that authorizes it
AuthorizedRestore ==
  /\ IsCall("restore_from_backup")
  /\ current_user.role = ROLE_SYSTEM_ADMIN
  /\ Authorizes(restore_codes, current_user.username, FileOf(last'), last'.arg2)

\* the step of C15: when a System Administrator's restore with the
\* authorizing code fails at the extraction of an existing archive, the row
\* of the code is used afterwards, the code does not authorize the caller
\* for the file in the state the call leaves, and nothing else in the store
\* or the backups has changed.
UsedBeforeExtraction ==
  [][ ( /\ AuthorizedRestore
        /\ backups[FileOf(last')].exists
        /\ last'.result = "False" )
      => LET row == CodeRows(restore_codes, current_user.username, FileOf(last'))[1]
         IN  /\ RowOf(restore_codes', row.id) = { [row EXCEPT !.is_used = 1] }
             /\ Len(restore_codes') = Len(restore_codes)
             /\ ~Authorizes(restore_codes', current_user.username,
                            FileOf(last'), last'.arg2)
             /\ ~IssuedUnused(restore_codes', current_user.username,
                              FileOf(last'), last'.arg2)
             /\ UNCHANGED << users, travellers, scooters, logs, seq, backups >> ]_vars

\* code c, issued to sys_admin for file f, is used and it was a restore that
\* used it: no revocation is on the audit log
SpentOnRestore(f, c) ==
  /\ \E i \in 1..Len(restore_codes) :
       /\ restore_codes[i].system_admin_username = "sys_admin"
       /\ restore_codes[i].backup_filename = f
       /\ decrypt(keyFile, restore_codes[i].code) = c
       /\ restore_codes[i].is_used = 1
  /\ ~Authorizes(restore_codes, "sys_admin", f, c)
  /\ \A i \in 1..Len(logs) :
       decrypt(keyFile, logs[i].activity) # "Revoked restore code"

\* C15: the code of a System Administrator's restore is marked used before
\* the extraction, so a code that a restore has used, the extraction having
\* failed, does not authorize that System Administrator to restore the file
\* after any later step.
C15_FailedRestoreConsumes ==
  [][ \A f \in Filenames, c \in IssuedCodes :
        SpentOnRestore(f, c) => ~Authorizes(restore_codes', "sys_admin", f, c) ]_vars

\* C16: a code that is used stays used: no step makes a row of
\* restore_codes with the token of a used code unused, and after a System
\* Administrator's successful restore no row with the token of the code
\* that authorized it is unused.
C16_InvalidationPermanent ==
  [][ /\ \A i \in 1..Len(restore_codes), j \in 1..Len(restore_codes') :
           ( /\ restore_codes[i].is_used = 1
             /\ restore_codes'[j].code = restore_codes[i].code )
           => restore_codes'[j].is_used = 1
      /\ ( AuthorizedRestore /\ last'.result = "True" )
         => LET row == CodeRows(restore_codes, current_user.username, FileOf(last'))[1]
            IN  \A j \in 1..Len(restore_codes') :
                  restore_codes'[j].code = row.code => restore_codes'[j].is_used = 1 ]_vars

\* a store, as the tuple of its tables, its audit log and its id counters
StoreOf(u, t, sc, l, rc, sq) ==
  [ users |-> u, travellers |-> t, scooters |-> sc, logs |-> l,
    restore_codes |-> rc, seq |-> sq ]

\* C17: create_backup files the store as it is when the call is made under
\* the name of the second, and a restore_from_backup that returns True makes
\* every table and every id counter equal to the archive's and the audit log
\* equal to the archive's log followed by one entry, the suspicious
\* "Restored from backup" of the caller; no archive changes.
C17_RestoreRoundTrip ==
  [][ /\ IsCall("create_backup") =>
           /\ backups'[now].exists
           /\ StoreOf(backups'[now].users, backups'[now].travellers,
                      backups'[now].scooters, backups'[now].logs,
                      backups'[now].restore_codes, backups'[now].seq)
                = StoreOf(users, travellers, scooters, logs, restore_codes, seq)
           /\ \A f \in Filenames \ {now} : backups'[f] = backups[f]
      /\ ( IsCall("restore_from_backup") /\ last'.result = "True" ) =>
           LET archive == backups[FileOf(last')]
           IN  /\ archive.exists
               /\ StoreOf(users', travellers', scooters', SubSeq(logs', 1, Len(logs') - 1),
                          restore_codes', seq')
                    = StoreOf(archive.users, archive.travellers, archive.scooters,
                              archive.logs, archive.restore_codes, archive.seq)
               /\ Len(logs') = Len(archive.logs) + 1
               /\ decrypt(keyFile, logs'[Len(logs')].activity) = "Restored from backup"
               /\ decrypt(keyFile, logs'[Len(logs')].username) = current_user.username
               /\ logs'[Len(logs')].suspicious = 1
               /\ backups' = backups ]_vars

C17_Witness ==
  /\ last.op = "restore_from_backup"
  /\ last.result = "True"
  /\ travellers = << >>
  /\ seq.travellers = 0
  /\ Len(logs) = 2
  /\ \E f \in Filenames :
       /\ backups[f].exists
       /\ backups[f].logs = SubSeq(logs, 1, 1)
       /\ backups[f].travellers = << >>

\* C18: restore_from_backup for a file that is not there returns False and
\* changes nothing, neither the store (no entry, no code marked used) nor
\* the backups, also for a System Administrator who gives the unused code
\* issued to them for that file.
C18_MissingFile ==
  [][ ( IsCall("restore_from_backup") /\ ~backups[FileOf(last')].exists )
      => ( /\ last'.result = "False"
           /\ UNCHANGED << store, backups >> ) ]_vars

C18_Witness ==
  /\ last.op = "restore_from_backup"
  /\ last.result = "False"
  /\ current_user.role = ROLE_SYSTEM_ADMIN
  /\ ~backups[FileOf(last)].exists
  /\ IssuedUnused(restore_codes, current_user.username, FileOf(last), last.arg2)

\* the step is a call of decrypt
IsDecrypt == blob.stage = "encrypted" /\ blob'.stage = "decrypted"

Alien(bytes) ==
  \/ \E key \in Keys \ {keyFile}, data \in Texts, iv \in Ivs :
       bytes = EncryptionManager_encrypt(key, Str(data), iv)
  \/ \E data \in Texts, iv \in Ivs, damage \in Damages :
       bytes = Bytes(Corrupted(EncryptionManager_encrypt(keyFile, Str(data), iv).v,
                               damage))

\* C20: decrypt of bytes encrypted under another key, or of damaged bytes,
\* returns the empty string; it ends with no exception.
C20_DecryptSwallows ==
  [][ ( IsDecrypt /\ Alien(blob.token) ) => blob'.out = Str(<< >>) ]_vars

C20_Witness ==
  /\ blob.stage = "decrypted"
  /\ blob.origin \in {"foreign", "corrupted"}
  /\ blob.text # << >>
  /\ Alien(blob.token)
  /\ blob.out = Str(<< >>)

\* the keys under which the ciphertexts of the store were made
StoreKeys(u, l, rc) ==
  UNION { { u[i].username.k, u[i].first_name.k, u[i].last_name.k } : i \in 1..Len(u) }
    \cup UNION { { l[i].username.k, l[i].activity.k, l[i].info.k } : i \in 1..Len(l) }
    \cup { rc[i].code.k : i \in 1..Len(rc) }

\* C21: a key file that holds a key keeps it whatever key a start-up would
\* generate; a running program has a key in the file, and every ciphertext
\* of the store, whether initialize_database's manager or the services'
\* manager made it, is under that key.
C21_OneKey ==
  [][ /\ keyFile # NoKey => keyFile' = keyFile
      /\ proc' = "running" =>
           /\ keyFile' \in Keys
           /\ StoreKeys(users', logs', restore_codes') \subseteq { keyFile' } ]_vars

C21_Witness ==
  /\ proc = "running"
  /\ keyFile \in Keys \ { FirstKey }
  /\ Len(users) >= 6
  /\ Len(logs) >= 2
  /\ StoreKeys(users, logs, restore_codes) = { keyFile }

\* no two rows of the table decrypt to one username, whatever the case
DistinctUsernames(key, table) ==
  \A i, j \in 1..Len(table) :
    i # j => Lower(decrypt(key, table[i].username))
               # Lower(decrypt(key, table[j].username))

\* C22: add_new_user with a username that a stored row already decrypts to,
\* in any case, returns False and leaves the users table as it is, and the
\* usernames of the table stay pairwise different.
C22_UniqueUsernames ==
  [][ /\ ( IsCall("add_new_user") /\ Found(last'.arg) )
           => ( last'.result = "False" /\ users' = users )
      /\ DistinctUsernames(keyFile, users) => DistinctUsernames(keyFile', users') ]_vars

\* the entry is the same but for its read flag
SameEntry(old, new) == [new EXCEPT !.is_read = old.is_read] = old

\* C23: get_logs(limit) sets the read flag of the returned entries that were
\* suspicious and unread, and of no other entry: a returned entry that is
\* not suspicious and every entry outside the returned set keep their flag;
\* check_unread_alerts changes nothing.
C23_ViewMarksSuspicious ==
  [][ /\ IsCall("get_logs") =>
           \E limit \in 1..MaxLimit, ids \in SUBSET (1..Len(logs)) :
             /\ last'.arg = ToString(limit)
             /\ ids \in Fetched(limit)
             /\ last'.result = ToString(ids)
             /\ Len(logs') = Len(logs)
             /\ \A i \in 1..Len(logs) :
                  /\ SameEntry(logs[i], logs'[i])
                  /\ logs'[i].is_read =
                       IF /\ logs[i].id \in ids
                          /\ logs[i].suspicious = 1
                          /\ logs[i].is_read = 0
                         THEN 1 ELSE logs[i].is_read
      /\ IsCall("check_unread_alerts") => UNCHANGED << store, backups >> ]_vars

\* C24: every entry of the audit log stays where it is with its date,
\* actor, activity, details and suspicious flag, a read flag that is 1 stays
\* 1, and the entries a step adds come after them with read flag 0.
C24_AppendOnly ==
  [][ /\ Len(logs') >= Len(logs)
      /\ \A i \in 1..Len(logs) :
           i <= Len(logs') =>
             /\ SameEntry(logs[i], logs'[i])
             /\ logs[i].is_read = 1 => logs'[i].is_read = 1
      /\ \A i \in Len(logs) + 1 .. Len(logs') : logs'[i].is_read = 0 ]_vars

\* C25: no call made from the main loop ends the process: a login with an
\* unknown username or a wrong password returns no identity and the program
\* is at the login prompt again, and viewing the system logs leaves the
\* program running whatever entries the log holds.
C25_NoUnhandledFault ==
  [][ /\ ( IsCall("login") /\ last'.result # "Success" )
           => ( proc' = "running" /\ current_user' = NoUser )
      /\ IsCall("handle_view_logs") => proc' = "running" ]_vars

\* viewing the system logs alone: the process survives it
ViewLogsSurvives ==
  [][ IsCall("handle_view_logs") => proc' = "running" ]_vars

\* the step is a start of the program
IsStart == proc # "running" /\ proc' = "running"

\* the rows of the table that decrypt to the username
RowsNamed(key, table, username) ==
  { i \in 1..Len(table) : decrypt(key, table[i].username) = username }

\* C26: initialize_database on an initialized store leaves the users table
\* as it is, and after any number of starts the table holds exactly one row
\* for each of super_admin, sys_admin and service_eng.
C26_SeedIdempotent ==
  [][ IsStart =>
        /\ users # << >> => users' = users
        /\ \A username \in {"super_admin", "sys_admin", "service_eng"} :
             Cardinality(RowsNamed(keyFile', users', username)) = 1 ]_vars

\* C27: every scooter of the store has its latitude in [51.8, 52.0] and
\* its longitude in [4.3, 4.6]: add_new_scooter and update_scooter write a
\* location only when it lies inside the box.
C27_InsideRotterdam ==
  \A i \in 1..Len(scooters) :
    is_in_rotterdam_region(Degrees(decrypt(keyFile, scooters[i].location_lat)),
                           Degrees(decrypt(keyFile, scooters[i].location_lon)))

\* the part of C27 about add_new_scooter: a scooter is added only with a
\* location inside the box
AddedInsideRotterdam ==
  [][ ( IsCall("add_new_scooter") /\ scooters' # scooters )
      => LET new == scooters'[Len(scooters')]
         IN  is_in_rotterdam_region(Degrees(decrypt(keyFile, new.location_lat)),
                                    Degrees(decrypt(keyFile, new.location_lon))) ]_vars

\* C28: when several unused codes are issued to a System Administrator for
\* one file, restore_from_backup by that System Administrator with any of
\* them passes the code check, the row of the code supplied is the one
\* marked used, and the other rows stay unused.
C28_AnyCodeAccepted ==
  [][ \A i \in 1..Len(restore_codes) :
        ( /\ IsCall("restore_from_backup")
          /\ current_user.role = ROLE_SYSTEM_ADMIN
          /\ backups[FileOf(last')].exists
          /\ restore_codes[i].is_used = 0
          /\ restore_codes[i].system_admin_username = current_user.username
          /\ restore_codes[i].backup_filename = FileOf(last')
          /\ decrypt(keyFile, restore_codes[i].code) = last'.arg2 )
        => /\ last'.msg \in {"System Restored", "An error occurred during restore"}
           /\ last'.msg = "An error occurred during restore" =>
                restore_codes' = MarkUsed(restore_codes, restore_codes[i].id) ]_vars

\* C29: a login attempt made while the username is locked out, that is
\* after n consecutive failures and less than L seconds after the last of
\* them, for every threshold n and lockout length L, is rejected with the
\* attempt records and the audit log as they were, so the lockout still ends
\* L seconds after the last failed password check.
C29_LockedAttemptInert ==
  [][ /\ ( IsCall("login") /\ last'.result = "Locked" )
           => UNCHANGED << login_attempts, store >>
      /\ \A u \in LoginNames, n \in 1..MaxThreshold, L \in 1..MaxTime + 1 :
           ( /\ IsLogin(u)
             /\ FailStreak(Lower(u)) >= n
             /\ now - LastFailTime(Lower(u)) < L )
           => UNCHANGED << login_attempts, logs >> ]_vars

\* the audit log holds the entry of a successful delete_user of the username
Deleted(username) ==
  \E i \in 1..Len(logs), target \in TargetNames :
    /\ Lower(target) = Lower(username)
    /\ decrypt(keyFile, logs[i].activity) = "Deleted user"
    /\ decrypt(keyFile, logs[i].info) = "Target Username: " \o target

\* C30: when delete_user has returned True for a username, no stored row
\* decrypts to that username, and no later login with it, in any case and
\* with any password, returns an identity, however often the program has
\* been started.
C30_DeletedCannotLogin ==
  [][ /\ ( IsCall("delete_user") /\ last'.result = "True" )
           => MatchingRows(users', last'.arg) = << >>
      /\ \A u \in LoginNames \cup {"Service_Eng"} :
           ( IsLogin(u) /\ Deleted(u) ) => last'.result # "Success" ]_vars

\* the second part of C30 alone
DeletedStaysOut ==
  [][ \A u \in LoginNames \cup {"Service_Eng"} :
        ( IsLogin(u) /\ Deleted(u) ) => last'.result # "Success" ]_vars

====
